---- MODULE Spec2Model ----
(***************************************************************************)
(* IntentGraph: the CacheManager (src/intentgraph/cache.py) and the        *)
(* QueryEngine (src/intentgraph/query_engine.py) as state machines.        *)
(*                                                                         *)
(* Spec        the CacheManager API called sequentially, with the          *)
(*             repository files and the cache file changed by the          *)
(*             environment between calls                                   *)
(* SpecSave    one save() run step by step, load() interleaved             *)
(* SpecPath    a QueryEngine over a file dependency graph, path()          *)
(* SpecCallers a QueryEngine over symbols and call edges, callers()        *)
(* SpecDeps    a QueryEngine over a file dependency graph, dependents()    *)
(*             and deps()                                                  *)
(* SpecSearch  a QueryEngine over files with symbols and complexity        *)
(*             scores, search()                                            *)
(* SpecContext a QueryEngine over a dependency graph whose first file      *)
(*             declares symbols, context() and symbols()                   *)
(* SpecExtract the JavaScript and TypeScript extractors run on one source  *)
(*             file, extract_code_structure()                              *)
(* SpecImports the JavaScript, TypeScript and Go extractors run on one     *)
(*             source file, extract_dependencies()                         *)
(* SpecStatus  the CacheManager API with status(), on a cache directory    *)
(*             only the CacheManager writes to                             *)
(* SpecRace    two save() calls on one cache path run step by step, in     *)
(*             every interleaving                                          *)
(* SpecQueries a QueryEngine over two files, the seven queries asked in    *)
(*             any order                                                   *)
(* SpecCli     the `intentgraph query` commands over a loaded result       *)
(* SpecRegistry the parser registry's get_parser(), constructions free to  *)
(*             fail                                                        *)
(* SpecRuntime RuntimeDetector.detect_package_manager() over the marker    *)
(*             files of a repository root                                  *)
(* SpecSnapshot RepoSnapshotBuilder's file UUIDs and file_index, built for *)
(*             repositories at several roots                               *)
(* SpecTsInit  one TypeScriptParser's lazy initialization across extract   *)
(*             calls                                                       *)
(* SpecBfs     a path() call run one loop pass at a time; SpecBfsFair adds *)
(*             that a call under way keeps running                         *)
(***************************************************************************)
EXTENDS Integers, Sequences, FiniteSets, TLC

VARIABLES
    disk,           \* repository files: path -> [kind, bytes]
    cacheDir,       \* whether <repo>/.intentgraph exists
    cacheFile,      \* content of <repo>/.intentgraph/cache.json
    tmp,            \* the temp file of the save() in progress or last run: "none"
                    \* (none made), its content so far, "renamed" or "removed"
    leftover,       \* whether an abandoned temp file lies in the cache directory
    ret,            \* what the last CacheManager call did and returned
    prev,           \* ret of the call before, when nothing happened in between
    scn,            \* the save / change / load / restore sequence under way
    savePc,         \* SpecSave: position of the save() in progress
    saveArg,        \* SpecSave: the result being saved
    saveOld,        \* cache.json content when save() was entered (SpecSave), at
                    \* the start (SpecRace)
    result,         \* the AnalysisResult handed to the QueryEngine
    engine,         \* "building" until QueryEngine.__init__ has run, then "ready"
    file_by_id,     \* QueryEngine._file_by_id
    file_by_path,   \* QueryEngine._file_by_path
    symbol_by_name, \* QueryEngine._symbol_by_name
    reverse_deps,   \* QueryEngine._reverse_deps
    qret,           \* the last query and the value it returned
    xfile,          \* the source file handed to a Language Extractor
    xrun,           \* the last extraction run: its arguments and what it returned
    xprev,          \* the extraction run before it
    savers,         \* two concurrent save() calls: each one's position, argument, temp file
    tmpFiles,       \* the temp files in the cache directory: name -> content
    bfs,            \* a path() call run step by step: its locals and what it did so far
    cli,            \* the last run of the query CLI: command, outcome, exit code
    registry,       \* _ParserRegistry: the extractors built so far and the calls made
    tsParser,       \* a TypeScriptParser's _initialized, _parser, _init_error and calls
    kept,           \* a query result the caller of the QueryEngine has kept
    snap            \* the last runs of the snapshot builder and the runtime detector

cacheVars == <<disk, cacheDir, cacheFile, tmp, leftover, ret, prev, scn>>
saveVars == <<savePc, saveArg, saveOld>>
queryVars == <<result, engine, file_by_id, file_by_path, symbol_by_name, reverse_deps, qret>>
parserVars == <<xfile, xrun, xprev>>
raceVars == <<savers, tmpFiles>>
auxVars == <<bfs, cli, registry, tsParser, kept, snap>>
vars == <<disk, cacheDir, cacheFile, tmp, leftover, ret, prev, scn,
          savePc, saveArg, saveOld,
          result, engine, file_by_id, file_by_path, symbol_by_name, reverse_deps, qret,
          xfile, xrun, xprev, savers, tmpFiles,
          bfs, cli, registry, tsParser, kept, snap>>

(***************************************************************************)
(* Bounds                                                                  *)
(***************************************************************************)
\* number of distinct byte contents a repository file can have
MaxBytes == 2

\* the tracked repository-relative paths
Paths == {"a.py", "b.py"}
RepoRoot == "/repo"
Bytes == 1..MaxBytes

Nil == "nil"

(***************************************************************************)
(* Repository files                                                        *)
(***************************************************************************)
Missing == [kind |-> "missing", bytes |-> 0]
Directory == [kind |-> "dir", bytes |-> 0]
RegularFile(b) == [kind |-> "file", bytes |-> b]

\* hashlib.sha256(...).hexdigest(): a digest, one per content (no collisions)
Sha256(b) == <<"sha256", b>>

Digests == {Sha256(b) : b \in Bytes}

(***************************************************************************)
(* AnalysisResult as the cache sees it: root and, per file, path + sha256  *)
(***************************************************************************)
FileInfos == [path : Paths, sha256 : Digests]

DistinctPaths(fs) == \A i, j \in 1..Len(fs) : i # j => fs[i].path # fs[j].path

FileLists == UNION {{fs \in [1..n -> FileInfos] : DistinctPaths(fs)} : n \in 0..Cardinality(Paths)}

Results == [root : {RepoRoot}, files : FileLists]

NoResult == [root |-> Nil, files |-> <<>>]

\* every recorded hash is the hash of the bytes now at repo_root/path
Fresh(r, d) ==
    \A i \in 1..Len(r.files) :
        /\ d[r.files[i].path].kind = "file"
        /\ Sha256(d[r.files[i].path].bytes) = r.files[i].sha256

(***************************************************************************)
(* Serialisation: result.model_dump(mode="json") turns paths into JSON     *)
(* strings and the file list into a JSON array of objects; model_validate  *)
(* accepts exactly that shape.                                             *)
(***************************************************************************)
JsonStr(s) == [t |-> "str", v |-> s]

DumpFile(fi) == [t |-> "object", path |-> JsonStr(fi.path), sha256 |-> fi.sha256[2]]

Dump(r) == [root |-> JsonStr(r.root), files |-> [i \in 1..Len(r.files) |-> DumpFile(r.files[i])]]

\* a "result" value that is JSON but no AnalysisResult
BadPayload == [root |-> [t |-> "null", v |-> Nil], files |-> <<>>]
\* the envelope has no "result" key
NoPayloadKey == [root |-> [t |-> "absent", v |-> Nil], files |-> <<>>]

ValidFile(jf) ==
    /\ jf.t = "object"
    /\ jf.path.t = "str"
    /\ jf.path.v \in Paths
    /\ jf.sha256 \in Bytes

ValidPayload(p) ==
    /\ p.root.t = "str"
    /\ \A i \in 1..Len(p.files) : ValidFile(p.files[i])

\* AnalysisResult.model_validate(data["result"]); only called on a valid payload
Validate(p) ==
    [root |-> p.root.v,
     files |-> [i \in 1..Len(p.files) |->
                   [path |-> p.files[i].path.v, sha256 |-> Sha256(p.files[i].sha256)]]]

(***************************************************************************)
(* The cache file                                                          *)
(***************************************************************************)
NoFile == [kind |-> "none", ver |-> Nil, payload |-> NoPayloadKey]
\* text that is not JSON
Garbage == [kind |-> "garbage", ver |-> Nil, payload |-> NoPayloadKey]
\* JSON, but a list instead of an object
JsonList == [kind |-> "list", ver |-> Nil, payload |-> NoPayloadKey]
\* a proper prefix of an envelope's text
Partial == [kind |-> "partial", ver |-> Nil, payload |-> NoPayloadKey]

JsonObject(v, p) == [kind |-> "object", ver |-> v, payload |-> p]

SCHEMA_VERSION == "1"

\* an envelope tagged with a version load() does not accept
SerialisedV2(r) == JsonObject("2", Dump(r))

\* the text save() writes: json.dumps({"schema_version": ..., "result": ...})
Serialised(r) == JsonObject(SCHEMA_VERSION, Dump(r))

(***************************************************************************)
(* CacheManager._is_stale and CacheManager.load                            *)
(***************************************************************************)
\* the loop of _is_stale from file i on: "stale", "fresh", or "raise" when
\* read_bytes() fails on a path that exists() but is no readable file
RECURSIVE IsStaleFrom(_, _, _)
IsStaleFrom(fs, i, d) ==
    IF i > Len(fs) THEN "fresh"
    ELSE LET f == d[fs[i].path] IN
         IF f.kind = "missing" THEN "stale"
         ELSE IF f.kind = "dir" THEN "raise"
         ELSE IF Sha256(f.bytes) # fs[i].sha256 THEN "stale"
         ELSE IsStaleFrom(fs, i + 1, d)

IsStale(r, d) == IsStaleFrom(r.files, 1, d)

Outcome(k, v) == [kind |-> k, val |-> v]

\* load(): what it returns for a cache file cf and repository files d
LoadOutcome(cf, d) ==
    IF cf.kind = "none" THEN Outcome("absent", NoResult)
    ELSE IF cf.kind # "object" THEN Outcome("absent", NoResult)
    ELSE IF cf.ver # "1" THEN Outcome("absent", NoResult)
    ELSE IF ~ValidPayload(cf.payload) THEN Outcome("absent", NoResult)
    ELSE LET r == Validate(cf.payload)
             st == IsStale(r, d)
         IN  IF st = "raise" THEN Outcome("raise", NoResult)
             ELSE IF st = "stale" THEN Outcome("absent", NoResult)
             ELSE Outcome("result", r)

(***************************************************************************)
(* What a call returns, as the caller sees it                              *)
(***************************************************************************)
\* op: the method; kind: "result", "absent", "ok" (save returned) or "raise";
\* loaded: what the load() inside load_or_analyze gave; analyzed, saves: how
\* often it invoked the analyzer and save(); savedArg: what it passed to
\* save(); wrote: whether the call replaced cache.json
Ret(op, kind, val, loaded, analyzed, saves, savedArg, wrote) ==
    [op |-> op, kind |-> kind, val |-> val, loaded |-> loaded,
     analyzed |-> analyzed, saves |-> saves, savedArg |-> savedArg, wrote |-> wrote]

RetNone == Ret("none", "none", NoResult, "none", 0, 0, NoResult, FALSE)

ScnIdle == [phase |-> "idle", result |-> NoResult, file |-> Nil]

Tracked(r) == {r.files[i].path : i \in 1..Len(r.files)}

RecordedHash(r, p) == (CHOOSE i \in 1..Len(r.files) : r.files[i].path = p)

\* the sequence save -> change one tracked file -> load -> restore it -> load,
\* advanced by a change of repository file p to state f
ScnAfterChange(p, f) ==
    IF scn.phase = "idle" THEN ScnIdle
    ELSE IF p \notin Tracked(scn.result) THEN scn
    ELSE LET same == f.kind = "file"
                     /\ Sha256(f.bytes) = scn.result.files[RecordedHash(scn.result, p)].sha256
         IN  IF scn.phase \in {"saved", "savedLoaded"}
             THEN IF same THEN scn
                  ELSE IF f.kind = "dir" THEN ScnIdle
                  ELSE [scn EXCEPT !.phase = "changed", !.file = p]
             ELSE IF scn.phase = "changedLoaded" /\ p = scn.file /\ same
             THEN [scn EXCEPT !.phase = "restored"]
             ELSE ScnIdle

ScnAfterLoad ==
    IF scn.phase = "saved" THEN [scn EXCEPT !.phase = "savedLoaded"]
    ELSE IF scn.phase = "changed" THEN [scn EXCEPT !.phase = "changedLoaded"]
    ELSE IF scn.phase = "restored" THEN [scn EXCEPT !.phase = "restoredLoaded"]
    ELSE scn

(***************************************************************************)
(* The environment: the repository's files change between calls            *)
(***************************************************************************)
EnvChange(p, f) ==
    /\ disk' = [disk EXCEPT ![p] = f]
    /\ scn' = ScnAfterChange(p, f)
    /\ ret' = RetNone
    /\ prev' = RetNone
    /\ UNCHANGED <<cacheDir, cacheFile, tmp, leftover>>
    /\ UNCHANGED saveVars
    /\ UNCHANGED queryVars
    /\ UNCHANGED <<parserVars, raceVars, auxVars>>

WriteFile == \E p \in Paths, b \in Bytes : EnvChange(p, RegularFile(b))

DeleteFile == \E p \in Paths : disk[p].kind # "missing" /\ EnvChange(p, Missing)

\* a directory (or any entry read_bytes() cannot read) takes the file's place
MakeDirectory == \E p \in Paths : disk[p].kind # "dir" /\ EnvChange(p, Directory)

\* cache.json is damaged or written by another version of the program
CorruptTo(c) ==
    /\ cacheDir
    /\ cacheFile' = c
    /\ scn' = ScnIdle
    /\ ret' = RetNone
    /\ prev' = RetNone
    /\ UNCHANGED <<disk, cacheDir, tmp, leftover>>
    /\ UNCHANGED saveVars
    /\ UNCHANGED queryVars
    /\ UNCHANGED <<parserVars, raceVars, auxVars>>

CorruptCache ==
    \/ \E c \in {Garbage, JsonList, JsonObject("1", BadPayload), JsonObject("1", NoPayloadKey)} :
           CorruptTo(c)
    \/ cacheFile.kind = "object" /\ cacheFile.ver = "1" /\ CorruptTo([cacheFile EXCEPT !.ver = "2"])

(***************************************************************************)
(* CacheManager.load                                                       *)
(***************************************************************************)
\* a load() that deletes a cache file it cannot use
LoadEvicting ==
    LET lo == LoadOutcome(cacheFile, disk) IN
    /\ ret' = Ret("load", lo.kind, lo.val, "none", 0, 0, NoResult, FALSE)
    /\ cacheFile' = IF lo.kind = "absent" THEN NoFile ELSE cacheFile
    /\ prev' = RetNone
    /\ scn' = ScnAfterLoad
    /\ UNCHANGED <<disk, cacheDir, tmp, leftover>>
    /\ UNCHANGED saveVars
    /\ UNCHANGED queryVars
    /\ UNCHANGED <<parserVars, raceVars, auxVars>>

Load ==
    LET lo == LoadOutcome(cacheFile, disk) IN
    /\ ret' = Ret("load", lo.kind, lo.val, "none", 0, 0, NoResult, FALSE)
    /\ prev' = RetNone
    /\ scn' = ScnAfterLoad
    /\ UNCHANGED <<disk, cacheDir, cacheFile, tmp, leftover>>
    /\ UNCHANGED saveVars
    /\ UNCHANGED queryVars
    /\ UNCHANGED <<parserVars, raceVars, auxVars>>

(***************************************************************************)
(* CacheManager.save, run to its end                                       *)
(***************************************************************************)
SaveSteps == {"mkdir", "mkstemp", "write", "replace"}

\* the file system after save(r) that fails at step failAt ("none": no step
\* fails); unlinkOk: whether the os.unlink of the cleanup succeeds
\* a save() that never renames its temp file over cache.json
SaveEffectNoReplace(r, failAt, unlinkOk) ==
    [dir      |-> IF failAt = "mkdir" THEN cacheDir ELSE TRUE,
     cache    |-> cacheFile,
     leftover |-> IF failAt \in {"write", "replace"} THEN TRUE ELSE leftover,
     raised   |-> failAt # "none"]

SaveEffect(r, failAt, unlinkOk) ==
    [dir      |-> IF failAt = "mkdir" THEN cacheDir ELSE TRUE,
     cache    |-> IF failAt = "none" THEN Serialised(r) ELSE cacheFile,
     leftover |-> IF failAt \in {"write", "replace"} /\ ~unlinkOk THEN TRUE ELSE leftover,
     raised   |-> failAt # "none"]

\* the ways save() can fail: the step, and whether the cleanup's unlink works
\* (there is a temp file to unlink only from the write on)
SaveFailures == {f \in SaveSteps \X BOOLEAN : f[1] \notin {"write", "replace"} => f[2]}

SaveReturns(r) ==
    LET e == SaveEffect(r, "none", TRUE) IN
    /\ cacheDir' = e.dir
    /\ cacheFile' = e.cache
    /\ leftover' = e.leftover
    /\ ret' = Ret("save", "ok", NoResult, "none", 0, 1, NoResult, TRUE)
    /\ scn' = IF Fresh(r, disk)
              THEN [phase |-> "saved", result |-> r, file |-> Nil]
              ELSE ScnIdle

SaveRaises(f) ==
    LET e == SaveEffect(NoResult, f[1], f[2]) IN
    /\ cacheDir' = e.dir
    /\ cacheFile' = e.cache
    /\ leftover' = e.leftover
    /\ ret' = Ret("save", "raise", NoResult, "none", 0, 1, NoResult, FALSE)
    /\ scn' = ScnIdle

Save ==
    /\ \/ \E r \in Results : SaveReturns(r)
       \/ \E f \in SaveFailures : SaveRaises(f)
    /\ prev' = RetNone
    /\ UNCHANGED <<disk, tmp>>
    /\ UNCHANGED saveVars
    /\ UNCHANGED queryVars
    /\ UNCHANGED <<parserVars, raceVars, auxVars>>

(***************************************************************************)
(* CacheManager.clear                                                      *)
(***************************************************************************)
\* a clear() that lets the FileNotFoundError of unlink() escape
ClearOutcomeStrict(cf) == IF cf.kind = "none" THEN "raise" ELSE "ok"

\* self._cache_path.unlink() inside try ... except FileNotFoundError: pass
ClearOutcome(cf) == "ok"

\* clear() has run and no save() has replaced cache.json since
ScnCleared == [phase |-> "cleared", result |-> NoResult, file |-> Nil]

Clear ==
    /\ cacheFile' = NoFile
    /\ ret' = Ret("clear", ClearOutcome(cacheFile), NoResult, "none", 0, 0, NoResult, FALSE)
    /\ prev' = RetNone
    /\ scn' = ScnCleared
    /\ UNCHANGED <<disk, cacheDir, tmp, leftover>>
    /\ UNCHANGED saveVars
    /\ UNCHANGED queryVars
    /\ UNCHANGED <<parserVars, raceVars, auxVars>>

(***************************************************************************)
(* CacheManager.status                                                     *)
(***************************************************************************)
\* str(self._cache_path)
CachePath == <<RepoRoot, ".intentgraph", "cache.json">>

StatusDict(exists, stale, file_count) ==
    [op |-> "status", kind |-> "ok", exists |-> exists, stale |-> stale,
     file_count |-> file_count, cache_path |-> CachePath]

\* status(): every exception after exists() gives stale = True, the one of
\* _is_stale included, which leaves file_count as already assigned
StatusOutcome(cf, d) ==
    IF cf.kind = "none" THEN StatusDict(FALSE, FALSE, 0)
    ELSE IF cf.kind # "object" THEN StatusDict(TRUE, TRUE, 0)
    ELSE IF cf.ver # SCHEMA_VERSION THEN StatusDict(TRUE, TRUE, 0)
    ELSE IF ~ValidPayload(cf.payload) THEN StatusDict(TRUE, TRUE, 0)
    ELSE LET r == Validate(cf.payload) IN
         StatusDict(TRUE, IsStale(r, d) # "fresh", Len(r.files))

Status ==
    /\ ret' = StatusOutcome(cacheFile, disk)
    /\ prev' = RetNone
    /\ UNCHANGED <<disk, cacheDir, cacheFile, tmp, leftover, scn>>
    /\ UNCHANGED saveVars
    /\ UNCHANGED queryVars
    /\ UNCHANGED <<parserVars, raceVars, auxVars>>

(***************************************************************************)
(* CacheManager.load_or_analyze                                            *)
(***************************************************************************)
\* RepositoryAnalyzer().analyze(repo_path): some File Records of the files now
\* in the repository, each with the hash of its bytes
AnalyzeResults(d) == {r \in Results : Fresh(r, d)}

LoadOrAnalyze ==
    LET lo == LoadOutcome(cacheFile, disk) IN
    /\ \/ /\ lo.kind = "raise"
          /\ ret' = Ret("loa", "raise", NoResult, "raise", 0, 0, NoResult, FALSE)
          /\ UNCHANGED <<cacheDir, cacheFile, leftover>>
       \/ /\ lo.kind = "result"
          /\ ret' = Ret("loa", "result", lo.val, "result", 0, 0, NoResult, FALSE)
          /\ UNCHANGED <<cacheDir, cacheFile, leftover>>
       \/ /\ lo.kind = "absent"
          /\ \E r \in AnalyzeResults(disk), f \in SaveFailures \cup {<<"none", TRUE>>} :
                LET e == SaveEffect(r, f[1], f[2]) IN
                /\ cacheDir' = e.dir
                /\ cacheFile' = e.cache
                /\ leftover' = e.leftover
                /\ ret' = Ret("loa", IF e.raised THEN "raise" ELSE "result",
                              IF e.raised THEN NoResult ELSE r,
                              "absent", 1, 1, r, ~e.raised)
    /\ prev' = IF ret.op = "loa" THEN ret ELSE RetNone
    /\ scn' = ScnIdle
    /\ UNCHANGED <<disk, tmp>>
    /\ UNCHANGED saveVars
    /\ UNCHANGED queryVars
    /\ UNCHANGED <<parserVars, raceVars, auxVars>>

(***************************************************************************)
(* Spec: the CacheManager of one repository, called sequentially           *)
(***************************************************************************)
\* no extractor has been run
ParserIdle ==
    /\ xfile = [extractor |-> "none"]
    /\ xrun = [op |-> "none"]
    /\ xprev = [op |-> "none"]

\* no concurrent save() is under way
RaceIdle ==
    /\ savers = <<>>
    /\ tmpFiles = <<>>

\* no stepwise path(), CLI run, registry, TypeScript parser or snapshot in use
AuxIdle ==
    /\ bfs = [pc |-> "off"]
    /\ cli = [command |-> "none"]
    /\ registry = [parsers |-> <<>>]
    /\ tsParser = [state |-> "off"]
    /\ kept = [op |-> "none"]
    /\ snap = [op |-> "none"]

QueryIdle ==
    /\ result = <<>>
    /\ engine = "off"
    /\ file_by_id = <<>>
    /\ file_by_path = <<>>
    /\ symbol_by_name = <<>>
    /\ reverse_deps = <<>>
    /\ qret = Nil

SaveIdle ==
    /\ savePc = "idle"
    /\ saveArg = NoResult
    /\ saveOld = NoFile

Init ==
    /\ disk \in [Paths -> {Missing, RegularFile(1)}]
    /\ cacheDir = FALSE
    /\ cacheFile = NoFile
    /\ tmp = "none"
    /\ leftover = FALSE
    /\ ret = RetNone
    /\ prev = RetNone
    /\ scn = ScnIdle
    /\ SaveIdle
    /\ QueryIdle
    /\ ParserIdle
    /\ RaceIdle
    /\ AuxIdle

Next ==
    \/ WriteFile
    \/ DeleteFile
    \/ MakeDirectory
    \/ CorruptCache
    \/ Load
    \/ Save
    \/ Clear
    \/ LoadOrAnalyze

Spec == Init /\ [][Next]_vars

(***************************************************************************)
(* SpecStatus: load(), save(), clear(), status() and load_or_analyze()     *)
(* called sequentially on a cache directory that nothing else writes to,   *)
(* starting from any cache file a former run may have left                 *)
(***************************************************************************)
CacheFiles(d) ==
    {NoFile, Garbage, JsonList, JsonObject(SCHEMA_VERSION, BadPayload),
     JsonObject(SCHEMA_VERSION, NoPayloadKey)}
        \cup {Serialised(r) : r \in AnalyzeResults(d)}
        \cup {SerialisedV2(r) : r \in AnalyzeResults(d)}

InitStatus ==
    /\ disk \in [Paths -> {Missing, RegularFile(1)}]
    /\ cacheFile \in CacheFiles(disk)
    /\ cacheDir = (cacheFile # NoFile)
    /\ tmp = "none"
    /\ leftover = FALSE
    /\ ret = RetNone
    /\ prev = RetNone
    /\ scn = ScnIdle
    /\ SaveIdle
    /\ QueryIdle
    /\ ParserIdle
    /\ RaceIdle
    /\ AuxIdle

NextStatus ==
    \/ WriteFile
    \/ DeleteFile
    \/ MakeDirectory
    \/ Load
    \/ Save
    \/ Clear
    \/ Status
    \/ LoadOrAnalyze

SpecStatus == InitStatus /\ [][NextStatus]_vars

(***************************************************************************)
(* SpecSave: save() step by step, with load() calls in between             *)
(***************************************************************************)
SaveRaise ==
    /\ savePc' = "idle"
    /\ ret' = Ret("save", "raise", NoResult, "none", 0, 1, NoResult, FALSE)

\* save(result) is entered: cache_dir = self._cache_path.parent
SaveEnter ==
    /\ savePc = "idle"
    /\ \E r \in Results : saveArg' = r
    /\ saveOld' = cacheFile
    /\ savePc' = "mkdir"
    /\ tmp' = "none"
    /\ UNCHANGED <<disk, cacheDir, cacheFile, leftover, ret, prev, scn>>
    /\ UNCHANGED queryVars
    /\ UNCHANGED <<parserVars, raceVars, auxVars>>

\* cache_dir.mkdir(parents=True, exist_ok=True)
SaveMkdir ==
    /\ savePc = "mkdir"
    /\ \/ cacheDir' = TRUE /\ savePc' = "mkstemp" /\ UNCHANGED ret
       \/ SaveRaise /\ UNCHANGED cacheDir
    /\ UNCHANGED <<disk, cacheFile, tmp, leftover, prev, scn, saveArg, saveOld>>
    /\ UNCHANGED queryVars
    /\ UNCHANGED <<parserVars, raceVars, auxVars>>

\* tempfile.mkstemp(dir=cache_dir, suffix=".tmp")
SaveMkstemp ==
    /\ savePc = "mkstemp"
    /\ \/ tmp' = "empty" /\ savePc' = "write" /\ UNCHANGED ret
       \/ SaveRaise /\ UNCHANGED tmp
    /\ UNCHANGED <<disk, cacheDir, cacheFile, leftover, prev, scn, saveArg, saveOld>>
    /\ UNCHANGED queryVars
    /\ UNCHANGED <<parserVars, raceVars, auxVars>>

\* a save() that writes the text to cache.json itself
SaveWriteInPlace ==
    /\ savePc = "write"
    /\ \/ cacheFile' = Serialised(saveArg) /\ tmp' = "full" /\ savePc' = "replace"
       \/ cacheFile' = Partial /\ tmp' = "partial" /\ savePc' = "cleanup"
    /\ UNCHANGED <<disk, cacheDir, leftover, ret, prev, scn, saveArg, saveOld>>
    /\ UNCHANGED queryVars
    /\ UNCHANGED <<parserVars, raceVars, auxVars>>

\* with os.fdopen(fd, "w") as fh: fh.write(serialised)
SaveWrite ==
    /\ savePc = "write"
    /\ \/ tmp' = "full" /\ savePc' = "replace"
       \/ tmp' \in {"empty", "partial"} /\ savePc' = "cleanup"
    /\ UNCHANGED <<disk, cacheDir, cacheFile, leftover, ret, prev, scn, saveArg, saveOld>>
    /\ UNCHANGED queryVars
    /\ UNCHANGED <<parserVars, raceVars, auxVars>>

\* os.replace(tmp_path, self._cache_path)
SaveReplace ==
    /\ savePc = "replace"
    /\ \/ /\ cacheFile' = Serialised(saveArg)
          /\ tmp' = "renamed"
          /\ savePc' = "idle"
          /\ ret' = Ret("save", "ok", NoResult, "none", 0, 1, NoResult, TRUE)
       \/ /\ savePc' = "cleanup"
          /\ UNCHANGED <<cacheFile, tmp, ret>>
    /\ UNCHANGED <<disk, cacheDir, leftover, prev, scn, saveArg, saveOld>>
    /\ UNCHANGED queryVars
    /\ UNCHANGED <<parserVars, raceVars, auxVars>>

\* a cleanup that removes the temp file and then reports success
SaveCleanupSwallowing ==
    /\ savePc = "cleanup"
    /\ tmp' = "removed"
    /\ UNCHANGED leftover
    /\ savePc' = "idle"
    /\ ret' = Ret("save", "ok", NoResult, "none", 0, 1, NoResult, FALSE)
    /\ UNCHANGED <<disk, cacheDir, cacheFile, prev, scn, saveArg, saveOld>>
    /\ UNCHANGED queryVars
    /\ UNCHANGED <<parserVars, raceVars, auxVars>>

\* except Exception: try os.unlink(tmp_path) except OSError: pass; raise
\* (an unlink that fails leaves the temp file where it is)
SaveCleanup ==
    /\ savePc = "cleanup"
    /\ \/ tmp' = "removed" /\ UNCHANGED leftover
       \/ UNCHANGED tmp /\ leftover' = TRUE
    /\ SaveRaise
    /\ UNCHANGED <<disk, cacheDir, cacheFile, prev, scn, saveArg, saveOld>>
    /\ UNCHANGED queryVars
    /\ UNCHANGED <<parserVars, raceVars, auxVars>>

InitSave ==
    /\ disk \in [Paths -> {Missing, RegularFile(1)}]
    /\ cacheFile \in {NoFile, Garbage} \cup {Serialised(r) : r \in AnalyzeResults(disk)}
    /\ cacheDir = (cacheFile # NoFile)
    /\ tmp = "none"
    /\ leftover = FALSE
    /\ ret = RetNone
    /\ prev = RetNone
    /\ scn = ScnIdle
    /\ savePc = "idle"
    /\ saveArg = NoResult
    /\ saveOld = cacheFile
    /\ QueryIdle
    /\ ParserIdle
    /\ RaceIdle
    /\ AuxIdle

NextSave ==
    \/ SaveEnter
    \/ SaveMkdir
    \/ SaveMkstemp
    \/ SaveWrite
    \/ SaveReplace
    \/ SaveCleanup
    \/ Load

SpecSave == InitSave /\ [][NextSave]_vars

(***************************************************************************)
(* Two CacheManager.save calls running at once on one cache path           *)
(***************************************************************************)
\* the two callers; each runs save() on its own result
Savers == {"A", "B"}

\* the names tempfile.mkstemp(dir=cache_dir, suffix=".tmp") can hand out
TmpNames == {"tmp1.tmp", "tmp2.tmp", "tmp3.tmp"}

\* the results the two callers save
RaceResults == {r \in Results : Len(r.files) <= 1}

\* a caller of save(): where it is, what it saves, the tmp_path it got, the
\* place of its os.replace among those done (0: not yet), and whether its
\* temp file existed together with the other caller's
Saver(pc, arg, tmp_path, renamed, met) ==
    [pc |-> pc, arg |-> arg, tmp_path |-> tmp_path, renamed |-> renamed, met |-> met]

\* between mkstemp and os.replace a caller owns a temp file
HoldsTemp(p) == savers[p].pc \in {"write", "close", "replace"}

Renames == Cardinality({p \in Savers : savers[p].renamed > 0})

\* cache_dir.mkdir(parents=True, exist_ok=True), then json.dumps(payload)
RaceMkdir ==
    \E p \in Savers :
        /\ savers[p].pc = "mkdir"
        /\ cacheDir' = TRUE
        /\ savers' = [savers EXCEPT ![p].pc = "mkstemp"]
        /\ UNCHANGED <<disk, cacheFile, tmp, leftover, ret, prev, scn, tmpFiles>>
        /\ UNCHANGED <<saveVars, queryVars, parserVars, auxVars>>

\* a temp file under one fixed name, opened with truncation
RaceMkstempFixedName(p) ==
    /\ tmpFiles' = [n \in DOMAIN tmpFiles \cup {"tmp1.tmp"} |->
                       IF n = "tmp1.tmp" THEN Partial ELSE tmpFiles[n]]
    /\ savers' = [savers EXCEPT ![p].pc = "write", ![p].tmp_path = "tmp1.tmp"]

\* fd, tmp_path = tempfile.mkstemp(...): a new empty file under a name no
\* file of the directory has (O_CREAT | O_EXCL)
RaceMkstempFile(p) ==
    \E name \in TmpNames \ DOMAIN tmpFiles :
        /\ tmpFiles' = [n \in DOMAIN tmpFiles \cup {name} |->
                           IF n = name THEN Partial ELSE tmpFiles[n]]
        /\ savers' = [q \in Savers |->
                         IF q = p
                         THEN [savers[q] EXCEPT !.pc = "write", !.tmp_path = name,
                                   !.met = \E o \in Savers \ {p} : HoldsTemp(o)]
                         ELSE [savers[q] EXCEPT !.met = @ \/ HoldsTemp(q)]]

RaceMkstemp ==
    \E p \in Savers :
        /\ savers[p].pc = "mkstemp"
        /\ RaceMkstempFile(p)
        /\ UNCHANGED <<disk, cacheDir, cacheFile, tmp, leftover, ret, prev, scn>>
        /\ UNCHANGED <<saveVars, queryVars, parserVars, auxVars>>

\* fh.write(serialised): part of the text may reach the file before the close
RaceWrite ==
    \E p \in Savers :
        /\ savers[p].pc = "write"
        /\ savers[p].tmp_path \in DOMAIN tmpFiles
        /\ tmpFiles' \in {tmpFiles, [tmpFiles EXCEPT ![savers[p].tmp_path] = Partial]}
        /\ savers' = [savers EXCEPT ![p].pc = "close"]
        /\ UNCHANGED <<disk, cacheDir, cacheFile, tmp, leftover, ret, prev, scn>>
        /\ UNCHANGED <<saveVars, queryVars, parserVars, auxVars>>

\* leaving the with block flushes and closes: the file holds the whole text
RaceClose ==
    \E p \in Savers :
        /\ savers[p].pc = "close"
        /\ savers[p].tmp_path \in DOMAIN tmpFiles
        /\ tmpFiles' = [tmpFiles EXCEPT ![savers[p].tmp_path] = Serialised(savers[p].arg)]
        /\ savers' = [savers EXCEPT ![p].pc = "replace"]
        /\ UNCHANGED <<disk, cacheDir, cacheFile, tmp, leftover, ret, prev, scn>>
        /\ UNCHANGED <<saveVars, queryVars, parserVars, auxVars>>

\* os.replace(tmp_path, self._cache_path): one atomic step that gives the
\* cache path the temp file's content and removes the temp name
RaceReplace ==
    \E p \in Savers :
        /\ savers[p].pc = "replace"
        /\ savers[p].tmp_path \in DOMAIN tmpFiles
        /\ cacheFile' = tmpFiles[savers[p].tmp_path]
        /\ tmpFiles' = [n \in DOMAIN tmpFiles \ {savers[p].tmp_path} |-> tmpFiles[n]]
        /\ savers' = [savers EXCEPT ![p].pc = "returned", ![p].renamed = Renames + 1]
        /\ UNCHANGED <<disk, cacheDir, tmp, leftover, ret, prev, scn>>
        /\ UNCHANGED <<saveVars, queryVars, parserVars, auxVars>>

InitRace ==
    /\ disk = [p \in Paths |-> Missing]
    /\ cacheFile \in {NoFile} \cup {Serialised(r) : r \in RaceResults}
    /\ cacheDir = (cacheFile # NoFile)
    /\ tmp = "none"
    /\ leftover = FALSE
    /\ ret = RetNone
    /\ prev = RetNone
    /\ scn = ScnIdle
    /\ savePc = "idle"
    /\ saveArg = NoResult
    /\ saveOld = cacheFile
    /\ QueryIdle
    /\ ParserIdle
    /\ savers \in [Savers -> {Saver("mkdir", r, "none", 0, FALSE) : r \in RaceResults}]
    /\ tmpFiles = <<>>
    /\ AuxIdle

NextRace ==
    \/ RaceMkdir
    \/ RaceMkstemp
    \/ RaceWrite
    \/ RaceClose
    \/ RaceReplace

SpecRace == InitRace /\ [][NextRace]_vars

(***************************************************************************)
(* The QueryEngine: the AnalysisResult it is given                         *)
(***************************************************************************)
\* number of file-level dependency edges in the result
MaxEdges == 3
\* number of symbols declared in the result
MaxSymbols == 2
\* number of Function Dependency edges in the result
MaxCalls == 2

\* the highest complexity score a file is given
MaxScore == 2

\* FileInfo.id of the File Record of each path
FileIdOf == [p \in {"a.py", "b.py", "c.py", "b.js"} |->
                IF p = "a.py" THEN "F1" ELSE IF p = "b.py" THEN "F2"
                ELSE IF p = "c.py" THEN "F3" ELSE "F4"]
\* FileInfo.language.value of the File Record of each path
LanguageOf == [p \in {"a.py", "b.py", "c.py", "b.js"} |->
                  IF p = "b.js" THEN "javascript" ELSE "python"]
\* an identifier that no File Record of the result has
GhostId == "F0"
\* a path that no File Record of the result has
UnknownPath == "zz.py"

None == "None"

NewFile(p) ==
    [id |-> FileIdOf[p], path |-> p, language |-> LanguageOf[p], loc |-> 10,
     sha256 |-> "x", complexity_score |-> 0, dependencies |-> <<>>,
     symbols |-> <<>>, exports |-> <<>>, function_dependencies |-> <<>>]

FileCount == Len(result.files)

EdgeCount(n) == LET f[i \in 0..n] == IF i = 0 THEN 0
                                     ELSE f[i - 1] + Len(result.files[i].dependencies)
                IN  f[n]

SymbolCount(n) == LET f[i \in 0..n] == IF i = 0 THEN 0
                                       ELSE f[i - 1] + Len(result.files[i].symbols)
                  IN  f[n]

CallCount(n) == LET f[i \in 0..n] == IF i = 0 THEN 0
                                     ELSE f[i - 1] + Len(result.files[i].function_dependencies)
                IN  f[n]

QueryNone == [op |-> "none", args |-> <<>>, value |-> <<>>]

IndicesUnchanged == UNCHANGED <<file_by_id, file_by_path, symbol_by_name, reverse_deps>>

\* the analyzer records that file i depends on the file with identifier d
AddDependency ==
    /\ engine = "building"
    /\ EdgeCount(FileCount) < MaxEdges
    /\ \E i \in 1..FileCount, d \in {result.files[j].id : j \in 1..FileCount} \cup {GhostId} :
           result' = [result EXCEPT !.files[i].dependencies = Append(@, d)]
    /\ UNCHANGED <<engine, qret>>
    /\ IndicesUnchanged
    /\ UNCHANGED cacheVars
    /\ UNCHANGED <<parserVars, raceVars, auxVars>>
    /\ UNCHANGED saveVars

SymbolNames == {"Baz", "baz"}
SymbolIds == {"S1", "S2"}

\* the analyzer records a symbol declared in file i
AddSymbol ==
    /\ engine = "building"
    /\ SymbolCount(FileCount) < MaxSymbols
    /\ \E i \in 1..FileCount, n \in SymbolNames, id \in SymbolIds :
           result' = [result EXCEPT !.files[i].symbols = Append(@, [name |-> n, id |-> id])]
    /\ UNCHANGED <<engine, qret>>
    /\ IndicesUnchanged
    /\ UNCHANGED cacheVars
    /\ UNCHANGED <<parserVars, raceVars, auxVars>>
    /\ UNCHANGED saveVars

\* the analyzer records a complexity score for file i (0: no metric collected)
SetComplexity ==
    /\ engine = "building"
    /\ \E i \in 1..FileCount, c \in 1..MaxScore :
           /\ result.files[i].complexity_score = 0
           /\ result' = [result EXCEPT !.files[i].complexity_score = c]
    /\ UNCHANGED <<engine, qret>>
    /\ IndicesUnchanged
    /\ UNCHANGED cacheVars
    /\ UNCHANGED <<parserVars, raceVars, auxVars>>
    /\ UNCHANGED saveVars

\* call sites: line number and context snippet (None: no context recorded)
CallSites == {[line_number |-> 12, context |-> "Baz()"], [line_number |-> 30, context |-> None]}

\* the analyzer records a Function Dependency in file i, to symbol t
AddCall ==
    /\ engine = "building"
    /\ CallCount(FileCount) < MaxCalls
    /\ \E i \in 1..FileCount, t \in SymbolIds, c \in CallSites :
           result' = [result EXCEPT !.files[i].function_dependencies =
                         Append(@, [to_symbol |-> t, line_number |-> c.line_number,
                                    context |-> c.context])]
    /\ UNCHANGED <<engine, qret>>
    /\ IndicesUnchanged
    /\ UNCHANGED cacheVars
    /\ UNCHANGED <<parserVars, raceVars, auxVars>>
    /\ UNCHANGED saveVars

(***************************************************************************)
(* QueryEngine.__init__ and _build_indices                                 *)
(***************************************************************************)
EmptyDict == [k \in {} |-> None]

\* dict.get(k) is not None
Has(dict, k) == k \in DOMAIN dict

\* dict[k] = v
Put(dict, k, v) == [x \in DOMAIN dict \cup {k} |-> IF x = k THEN v ELSE dict[x]]

\* dict.setdefault(k, []).append(v)
PutAppend(dict, k, v) == Put(dict, k, Append(IF k \in DOMAIN dict THEN dict[k] ELSE <<>>, v))

\* dict[k] = [v]
PutReplace(dict, k, v) == Put(dict, k, <<v>>)

\* self._file_by_id[fi.id] = fi, over the files in order
FileById(fs) ==
    LET f[i \in 0..Len(fs)] == IF i = 0 THEN EmptyDict ELSE Put(f[i - 1], fs[i].id, fs[i])
    IN  f[Len(fs)]

\* self._file_by_path[str(fi.path)] = fi, over the files in order
FileByPath(fs) ==
    LET f[i \in 0..Len(fs)] == IF i = 0 THEN EmptyDict ELSE Put(f[i - 1], fs[i].path, fs[i])
    IN  f[Len(fs)]

SymbolsInto(dict, fi) ==
    LET f[k \in 0..Len(fi.symbols)] ==
            IF k = 0 THEN dict
            ELSE PutAppend(f[k - 1], fi.symbols[k].name, <<fi, fi.symbols[k]>>)
    IN  f[Len(fi.symbols)]

SymbolsIntoLast(dict, fi) ==
    LET f[k \in 0..Len(fi.symbols)] ==
            IF k = 0 THEN dict
            ELSE PutReplace(f[k - 1], fi.symbols[k].name, <<fi, fi.symbols[k]>>)
    IN  f[Len(fi.symbols)]

\* an index that keeps only the last declaration of each name
SymbolByNameLast(fs) ==
    LET f[i \in 0..Len(fs)] == IF i = 0 THEN EmptyDict ELSE SymbolsIntoLast(f[i - 1], fs[i])
    IN  f[Len(fs)]

\* self._symbol_by_name.setdefault(sym.name, []).append((fi, sym))
SymbolByName(fs) ==
    LET f[i \in 0..Len(fs)] == IF i = 0 THEN EmptyDict ELSE SymbolsInto(f[i - 1], fs[i])
    IN  f[Len(fs)]

\* an index filled the wrong way round: dependency lists keyed by the file itself
ReverseDepsForward(fs) ==
    LET f[i \in 0..Len(fs)] ==
            IF i = 0 THEN EmptyDict
            ELSE IF fs[i].dependencies = <<>> THEN f[i - 1]
                 ELSE Put(f[i - 1], fs[i].id, fs[i].dependencies)
    IN  f[Len(fs)]

DepsInto(dict, fi) ==
    LET f[k \in 0..Len(fi.dependencies)] ==
            IF k = 0 THEN dict
            ELSE PutAppend(f[k - 1], fi.dependencies[k], fi.id)
    IN  f[Len(fi.dependencies)]

\* self._reverse_deps.setdefault(dep_id, []).append(fi.id)
ReverseDeps(fs) ==
    LET f[i \in 0..Len(fs)] == IF i = 0 THEN EmptyDict ELSE DepsInto(f[i - 1], fs[i])
    IN  f[Len(fs)]

\* QueryEngine(result)
Construct ==
    /\ engine = "building"
    /\ engine' = "ready"
    /\ file_by_id' = FileById(result.files)
    /\ file_by_path' = FileByPath(result.files)
    /\ symbol_by_name' = SymbolByName(result.files)
    /\ reverse_deps' = ReverseDeps(result.files)
    /\ UNCHANGED <<result, qret>>
    /\ UNCHANGED cacheVars
    /\ UNCHANGED <<parserVars, raceVars, auxVars>>
    /\ UNCHANGED saveVars

(***************************************************************************)
(* QueryEngine.path                                                        *)
(***************************************************************************)
\* for dep_id in current_fi.dependencies, from position i on
RECURSIVE BfsScan(_, _, _, _, _, _, _)
BfsScan(byId, deps, i, current, pred, queue, target) ==
    IF i > Len(deps) THEN [found |-> FALSE, pred |-> pred, queue |-> queue]
    ELSE IF deps[i] \notin DOMAIN byId
         THEN BfsScan(byId, deps, i + 1, current, pred, queue, target)
    ELSE IF deps[i] \in DOMAIN pred
         THEN BfsScan(byId, deps, i + 1, current, pred, queue, target)
    ELSE IF deps[i] = target
         THEN [found |-> TRUE, pred |-> Put(pred, deps[i], current), queue |-> queue]
    ELSE BfsScan(byId, deps, i + 1, current, Put(pred, deps[i], current),
                 Append(queue, deps[i]), target)

\* while queue and not found
RECURSIVE BfsLoop(_, _, _, _)
BfsLoop(byId, pred, queue, target) ==
    IF queue = <<>> THEN [found |-> FALSE, pred |-> pred, queue |-> queue]
    ELSE LET current == Head(queue)
             r == BfsScan(byId, byId[current].dependencies, 1, current, pred, Tail(queue), target)
         IN  IF r.found THEN r ELSE BfsLoop(byId, r.pred, r.queue, target)

\* a depth-first search: each newly reached file is explored at once
RECURSIVE DfsFrom(_, _, _, _, _)
DfsFrom(byId, current, i, pred, target) ==
    LET deps == byId[current].dependencies IN
    IF i > Len(deps) THEN [found |-> FALSE, pred |-> pred, queue |-> <<>>]
    ELSE IF deps[i] \notin DOMAIN byId \/ deps[i] \in DOMAIN pred
         THEN DfsFrom(byId, current, i + 1, pred, target)
    ELSE IF deps[i] = target
         THEN [found |-> TRUE, pred |-> Put(pred, deps[i], current), queue |-> <<>>]
    ELSE LET r == DfsFrom(byId, deps[i], 1, Put(pred, deps[i], current), target)
         IN  IF r.found THEN r ELSE DfsFrom(byId, current, i + 1, r.pred, target)

SearchDepthFirst(byId, source, target) ==
    DfsFrom(byId, source, 1, Put(EmptyDict, source, None), target)

\* predecessors = {fi_a.id: None}; queue = deque([fi_a.id]); the BFS
Search(byId, source, target) ==
    BfsLoop(byId, Put(EmptyDict, source, None), <<source>>, target)

\* node = fi_b.id; while node is not None: path_ids.append(node); node = predecessors[node]
RECURSIVE WalkBack(_, _)
WalkBack(pred, node) ==
    IF node = None THEN <<>> ELSE <<node>> \o WalkBack(pred, pred[node])

Reverse(seq) == [i \in 1..Len(seq) |-> seq[Len(seq) + 1 - i]]

\* the walk from the target back, left in that order
PathIdsNotReversed(pred, target) == WalkBack(pred, target)

\* path_ids.reverse()
PathIds(pred, target) == Reverse(WalkBack(pred, target))

PathValue(a, b, path, found) == [from |-> a, to |-> b, path |-> path, found |-> found]

\* a path() without the test for equal endpoints
PathQueryNoShortCircuit(byPath, byId, a, b) ==
    IF ~Has(byPath, a) \/ ~Has(byPath, b) THEN PathValue(a, b, <<>>, FALSE)
    ELSE LET r == Search(byId, byPath[a].id, byPath[b].id) IN
         IF r.found
         THEN LET ids == PathIds(r.pred, byPath[b].id)
              IN  PathValue(a, b, [n \in 1..Len(ids) |-> byId[ids[n]].path], TRUE)
         ELSE PathValue(a, b, <<>>, FALSE)

\* QueryEngine.path(file_a, file_b)
PathQuery(byPath, byId, a, b) ==
    IF a = b THEN PathValue(a, b, <<a>>, TRUE)
    ELSE IF ~Has(byPath, a) \/ ~Has(byPath, b) THEN PathValue(a, b, <<>>, FALSE)
    ELSE LET fi_a == byPath[a]
             fi_b == byPath[b]
         IN  LET r == Search(byId, fi_a.id, fi_b.id) IN
                  IF r.found
                  THEN LET ids == PathIds(r.pred, fi_b.id)
                       IN  PathValue(a, b, [n \in 1..Len(ids) |-> byId[ids[n]].path], TRUE)
                  ELSE PathValue(a, b, <<>>, FALSE)

QueryPaths == {result.files[i].path : i \in 1..FileCount} \cup {UnknownPath}

Path ==
    /\ engine = "ready"
    /\ \E a \in QueryPaths, b \in QueryPaths :
           qret' = [op |-> "path", args |-> <<a, b>>,
                    value |-> PathQuery(file_by_path, file_by_id, a, b)]
    /\ UNCHANGED <<result, engine>>
    /\ IndicesUnchanged
    /\ UNCHANGED cacheVars
    /\ UNCHANGED <<parserVars, raceVars, auxVars>>
    /\ UNCHANGED saveVars

(***************************************************************************)
(* QueryEngine.callers                                                     *)
(***************************************************************************)
\* target_sym_ids: the ids of the symbols indexed under symbol_name
TargetSymIds(byName, symbol_name) ==
    LET entries == IF symbol_name \in DOMAIN byName THEN byName[symbol_name] ELSE <<>>
    IN  {entries[k][2].id : k \in 1..Len(entries)}

\* for fd in fi.function_dependencies: if fd.to_symbol in target_sym_ids: append
CallersInFile(fi, ids) ==
    LET f[k \in 0..Len(fi.function_dependencies)] ==
            IF k = 0 THEN <<>>
            ELSE LET fd == fi.function_dependencies[k] IN
                 IF fd.to_symbol \in ids
                 THEN Append(f[k - 1], [file |-> fi.path, line |-> fd.line_number,
                                        context |-> fd.context])
                 ELSE f[k - 1]
    IN  f[Len(fi.function_dependencies)]

\* QueryEngine.callers(symbol_name)
CallersQuery(fs, byName, symbol_name) ==
    LET ids == TargetSymIds(byName, symbol_name)
        f[i \in 0..Len(fs)] == IF i = 0 THEN <<>> ELSE f[i - 1] \o CallersInFile(fs[i], ids)
    IN  [symbol |-> symbol_name, callers |-> f[Len(fs)]]

QueryNames == SymbolNames \cup {"qux"}

Callers ==
    /\ engine = "ready"
    /\ \E n \in QueryNames :
           qret' = [op |-> "callers", args |-> <<n>>,
                    value |-> CallersQuery(result.files, symbol_by_name, n)]
    /\ UNCHANGED <<result, engine>>
    /\ IndicesUnchanged
    /\ UNCHANGED cacheVars
    /\ UNCHANGED <<parserVars, raceVars, auxVars>>
    /\ UNCHANGED saveVars

(***************************************************************************)
(* QueryEngine.dependents and QueryEngine.deps                             *)
(***************************************************************************)
\* for dep_id in ids: dep_fi = self._file_by_id.get(dep_id); if dep_fi is not None: append
FileLevelEntries(byId, ids) ==
    LET f[k \in 0..Len(ids)] ==
            IF k = 0 THEN <<>>
            ELSE IF Has(byId, ids[k])
                 THEN Append(f[k - 1], [file |-> byId[ids[k]].path,
                                        dependency_type |-> "file-level"])
                 ELSE f[k - 1]
    IN  f[Len(ids)]

\* QueryEngine.dependents(file_path)
DependentsQuery(byPath, byId, rev, file_path) ==
    IF ~Has(byPath, file_path) THEN [file |-> file_path, dependents |-> <<>>]
    ELSE LET fi == byPath[file_path]
             dependent_ids == IF Has(rev, fi.id) THEN rev[fi.id] ELSE <<>>
         IN  [file |-> file_path, dependents |-> FileLevelEntries(byId, dependent_ids)]

\* QueryEngine.deps(file_path)
DepsQuery(byPath, byId, file_path) ==
    IF ~Has(byPath, file_path) THEN [file |-> file_path, deps |-> <<>>]
    ELSE [file |-> file_path, deps |-> FileLevelEntries(byId, byPath[file_path].dependencies)]

\* a dependents() that takes the entry out of _reverse_deps (dict.pop)
DependentsConsuming ==
    /\ engine = "ready"
    /\ \E p \in QueryPaths :
           /\ qret' = [op |-> "dependents", args |-> <<p>>,
                       value |-> DependentsQuery(file_by_path, file_by_id, reverse_deps, p)]
           /\ reverse_deps' =
                  IF Has(file_by_path, p)
                  THEN [k \in DOMAIN reverse_deps \ {file_by_path[p].id} |-> reverse_deps[k]]
                  ELSE reverse_deps
    /\ UNCHANGED <<result, engine, file_by_id, file_by_path, symbol_by_name>>
    /\ UNCHANGED cacheVars
    /\ UNCHANGED <<parserVars, raceVars, auxVars>>
    /\ UNCHANGED saveVars

Dependents ==
    /\ engine = "ready"
    /\ \E p \in QueryPaths :
           qret' = [op |-> "dependents", args |-> <<p>>,
                    value |-> DependentsQuery(file_by_path, file_by_id, reverse_deps, p)]
    /\ UNCHANGED <<result, engine>>
    /\ IndicesUnchanged
    /\ UNCHANGED cacheVars
    /\ UNCHANGED <<parserVars, raceVars, auxVars>>
    /\ UNCHANGED saveVars

Deps ==
    /\ engine = "ready"
    /\ \E p \in QueryPaths :
           qret' = [op |-> "deps", args |-> <<p>>,
                    value |-> DepsQuery(file_by_path, file_by_id, p)]
    /\ UNCHANGED <<result, engine>>
    /\ IndicesUnchanged
    /\ UNCHANGED cacheVars
    /\ UNCHANGED <<parserVars, raceVars, auxVars>>
    /\ UNCHANGED saveVars

(***************************************************************************)
(* QueryEngine.search                                                      *)
(***************************************************************************)
\* an optional argument: None, or a value
Absent == [given |-> FALSE]
Given(x) == [given |-> TRUE, v |-> x]

\* what a query call did: returned a value, or raised
Returned(v) == [raised |-> None, returned |-> v]
Raised(e) == [raised |-> e, returned |-> <<>>]

\* the characters of str(fi.path)
PathChars == [p \in {"a.py", "b.py", "c.py", "b.js"} |->
                 IF p = "a.py" THEN <<"a", ".", "p", "y">>
                 ELSE IF p = "b.py" THEN <<"b", ".", "p", "y">>
                 ELSE IF p = "c.py" THEN <<"c", ".", "p", "y">>
                 ELSE <<"b", ".", "j", "s">>]

\* regular expressions, as token sequences: "^" and "$" anchor, "." is any
\* character, "\\." the character ".", "[" opens a character set, any other
\* token is that character
PatPySuffix == <<"\\.", "p", "y", "$">>
PatStartsB == <<"^", "b">>
PatAnyDot == <<".", "\\.">>
PatOpenSet == <<"[">>
NamePatterns == {PatPySuffix, PatStartsB, PatAnyDot, PatOpenSet}

\* re.compile raises re.error: unterminated character set
Malformed(pat) ==
    \E i \in 1..Len(pat) : pat[i] = "[" /\ \A j \in (i + 1)..Len(pat) : pat[j] # "]"

\* the pattern, from token i on, matches the string at position pos
RECURSIVE MatchAt(_, _, _, _)
MatchAt(pat, i, str, pos) ==
    IF i > Len(pat) THEN TRUE
    ELSE IF pat[i] = "^" THEN pos = 1 /\ MatchAt(pat, i + 1, str, pos)
    ELSE IF pat[i] = "$" THEN pos = Len(str) + 1 /\ MatchAt(pat, i + 1, str, pos)
    ELSE IF pos > Len(str) THEN FALSE
    ELSE IF pat[i] = "." THEN MatchAt(pat, i + 1, str, pos + 1)
    ELSE IF pat[i] = "\\." THEN str[pos] = "." /\ MatchAt(pat, i + 1, str, pos + 1)
    ELSE str[pos] = pat[i] /\ MatchAt(pat, i + 1, str, pos + 1)

\* bool(re.search(pattern, string)), for a pattern that compiles
ReSearch(pat, str) == \E pos \in 1..(Len(str) + 1) : MatchAt(pat, 1, str, pos)

\* str.lower()
Lower(str) == IF str \in {"PYTHON", "Python", "python"} THEN "python"
              ELSE IF str \in {"JavaScript", "javascript"} THEN "javascript"
              ELSE str

\* _passes_name_pattern(fi, name_pattern), for a pattern that compiles
PassesNamePattern(fi, name_pattern) ==
    IF ~name_pattern.given THEN TRUE
    ELSE ReSearch(name_pattern.v, PathChars[fi.path])

\* _passes_lang(fi, lang)
PassesLang(fi, lang) ==
    IF ~lang.given THEN TRUE
    ELSE Lower(fi.language) = Lower(lang.v)

\* _passes_has_symbol(fi, has_symbol)
PassesHasSymbol(fi, has_symbol) ==
    IF ~has_symbol.given THEN TRUE
    ELSE \E k \in 1..Len(fi.symbols) : fi.symbols[k].name = has_symbol.v

\* a complexity filter that treats a score of 0 like any other score
PassesComplexityNoZero(fi, complexity_gt) ==
    IF ~complexity_gt.given THEN TRUE
    ELSE fi.complexity_score > complexity_gt.v

\* _passes_complexity(fi, complexity_gt)
PassesComplexity(fi, complexity_gt) ==
    IF ~complexity_gt.given THEN TRUE
    ELSE IF fi.complexity_score = 0 THEN TRUE
    ELSE fi.complexity_score > complexity_gt.v

QueryEcho(name_pattern, complexity_gt, lang, has_symbol) ==
    [name_pattern |-> name_pattern, complexity_gt |-> complexity_gt,
     lang |-> lang, has_symbol |-> has_symbol]

\* QueryEngine.search(name_pattern, complexity_gt, lang, has_symbol)
SearchQuery(fs, name_pattern, complexity_gt, lang, has_symbol) ==
    IF fs # <<>> /\ name_pattern.given /\ Malformed(name_pattern.v)
    THEN Raised("re.error")
    ELSE LET f[i \in 0..Len(fs)] ==
                 IF i = 0 THEN <<>>
                 ELSE IF ~PassesNamePattern(fs[i], name_pattern) THEN f[i - 1]
                 ELSE IF ~PassesLang(fs[i], lang) THEN f[i - 1]
                 ELSE IF ~PassesHasSymbol(fs[i], has_symbol) THEN f[i - 1]
                 ELSE IF ~PassesComplexity(fs[i], complexity_gt) THEN f[i - 1]
                 ELSE Append(f[i - 1], [file |-> fs[i].path, language |-> fs[i].language,
                                        loc |-> fs[i].loc,
                                        symbol_count |-> Len(fs[i].symbols)])
         IN  Returned([query |-> QueryEcho(name_pattern, complexity_gt, lang, has_symbol),
                       results |-> f[Len(fs)]])

PatternArgs == {Absent} \cup {Given(pat) : pat \in NamePatterns}
ComplexityArgs == {Absent} \cup {Given(n) : n \in 0..MaxScore}
LangArgs == {Absent, Given("PYTHON"), Given("go")}
HasSymbolArgs == {Absent, Given("Baz")}

\* search() with its four keyword arguments drawn from the given sets
SearchAmong(patterns, scores, langs, names) ==
    /\ engine = "ready"
    /\ \E np \in patterns, gt \in scores, lang \in langs, hs \in names :
           qret' = [op |-> "search", args |-> <<np, gt, lang, hs>>,
                    value |-> SearchQuery(result.files, np, gt, lang, hs)]
    /\ UNCHANGED <<result, engine>>
    /\ IndicesUnchanged
    /\ UNCHANGED cacheVars
    /\ UNCHANGED <<parserVars, raceVars, auxVars>>
    /\ UNCHANGED saveVars

SearchFiles == SearchAmong(PatternArgs, ComplexityArgs, LangArgs, HasSymbolArgs)

(***************************************************************************)
(* QueryEngine.context and QueryEngine.symbols                             *)
(***************************************************************************)
\* _symbol_to_dict(sym): the symbol's attributes without its identifier
SymbolToDict(sym) == [name |-> sym.name]

SymbolDicts(fi) == [k \in 1..Len(fi.symbols) |-> SymbolToDict(fi.symbols[k])]

ExportDicts(fi) ==
    [k \in 1..Len(fi.exports) |->
        [name |-> fi.exports[k].name, export_type |-> fi.exports[k].export_type]]

\* a context() that answers an unknown path the way deps() does
ContextQueryLenient(byPath, byId, rev, file_path) ==
    IF ~Has(byPath, file_path)
    THEN Returned([file |-> file_path, symbols |-> <<>>, exports |-> <<>>,
                   deps |-> <<>>, dependents |-> <<>>])
    ELSE LET fi == byPath[file_path] IN
         Returned([file |-> file_path, language |-> fi.language, loc |-> fi.loc,
                   sha256 |-> fi.sha256, symbols |-> SymbolDicts(fi),
                   exports |-> ExportDicts(fi),
                   deps |-> DepsQuery(byPath, byId, file_path).deps,
                   dependents |-> DependentsQuery(byPath, byId, rev, file_path).dependents])

\* QueryEngine.context(file_path)
ContextQuery(byPath, byId, rev, file_path) ==
    IF ~Has(byPath, file_path) THEN Raised("FileNotFoundError")
    ELSE LET fi == byPath[file_path] IN
         Returned([file |-> file_path, language |-> fi.language, loc |-> fi.loc,
                   sha256 |-> fi.sha256, symbols |-> SymbolDicts(fi),
                   exports |-> ExportDicts(fi),
                   deps |-> DepsQuery(byPath, byId, file_path).deps,
                   dependents |-> DependentsQuery(byPath, byId, rev, file_path).dependents])

\* QueryEngine.symbols(file_path)
SymbolsQuery(byPath, file_path) ==
    IF ~Has(byPath, file_path) THEN Raised("FileNotFoundError")
    ELSE Returned([file |-> file_path, symbols |-> SymbolDicts(byPath[file_path])])

Context ==
    /\ engine = "ready"
    /\ \E p \in QueryPaths :
           qret' = [op |-> "context", args |-> <<p>>,
                    value |-> ContextQuery(file_by_path, file_by_id, reverse_deps, p)]
    /\ UNCHANGED <<result, engine>>
    /\ IndicesUnchanged
    /\ UNCHANGED cacheVars
    /\ UNCHANGED <<parserVars, raceVars, auxVars>>
    /\ UNCHANGED saveVars

Symbols ==
    /\ engine = "ready"
    /\ \E p \in QueryPaths :
           qret' = [op |-> "symbols", args |-> <<p>>,
                    value |-> SymbolsQuery(file_by_path, p)]
    /\ UNCHANGED <<result, engine>>
    /\ IndicesUnchanged
    /\ UNCHANGED cacheVars
    /\ UNCHANGED <<parserVars, raceVars, auxVars>>
    /\ UNCHANGED saveVars

(***************************************************************************)
(* SpecPath, SpecCallers: a QueryEngine built over a result and queried    *)
(***************************************************************************)
CacheIdle ==
    /\ disk = [p \in Paths |-> Missing]
    /\ cacheDir = FALSE
    /\ cacheFile = NoFile
    /\ tmp = "none"
    /\ leftover = FALSE
    /\ ret = RetNone
    /\ prev = RetNone
    /\ scn = ScnIdle
    /\ SaveIdle

EngineBuilding ==
    /\ engine = "building"
    /\ file_by_id = EmptyDict
    /\ file_by_path = EmptyDict
    /\ symbol_by_name = EmptyDict
    /\ reverse_deps = EmptyDict
    /\ qret = QueryNone

InitPath ==
    /\ result = [root |-> RepoRoot, files |-> <<NewFile("a.py"), NewFile("b.py"), NewFile("c.py")>>]
    /\ EngineBuilding
    /\ CacheIdle
    /\ ParserIdle
    /\ RaceIdle
    /\ AuxIdle

NextPath ==
    \/ AddDependency
    \/ Construct
    \/ Path

SpecPath == InitPath /\ [][NextPath]_vars

InitCallers ==
    /\ result = [root |-> RepoRoot, files |-> <<NewFile("a.py"), NewFile("b.py")>>]
    /\ EngineBuilding
    /\ CacheIdle
    /\ ParserIdle
    /\ RaceIdle
    /\ AuxIdle

NextCallers ==
    \/ AddSymbol
    \/ AddCall
    \/ Construct
    \/ Callers

SpecCallers == InitCallers /\ [][NextCallers]_vars

NextDeps ==
    \/ AddDependency
    \/ Construct
    \/ Dependents
    \/ Deps

SpecDeps == InitPath /\ [][NextDeps]_vars

\* the symbols a file of the searched result declares
Declares(n, id) == [name |-> n, id |-> id]
SymbolLists == {<<>>, <<Declares("Baz", "S1")>>, <<Declares("baz", "S2")>>,
                <<Declares("baz", "S1"), Declares("Baz", "S2")>>}

InitSearch ==
    /\ \E sa \in SymbolLists, sb \in SymbolLists :
           result = [root |-> RepoRoot,
                     files |-> <<[NewFile("a.py") EXCEPT !.symbols = sa],
                                 [NewFile("b.js") EXCEPT !.symbols = sb]>>]
    /\ EngineBuilding
    /\ CacheIdle
    /\ ParserIdle
    /\ RaceIdle
    /\ AuxIdle

NextSearch ==
    \/ SetComplexity
    \/ Construct
    \/ SearchFiles

SpecSearch == InitSearch /\ [][NextSearch]_vars

InitContext ==
    /\ \E sa \in SymbolLists :
           result = [root |-> RepoRoot,
                     files |-> <<[NewFile("a.py") EXCEPT !.symbols = sa],
                                 NewFile("b.py"), NewFile("c.py")>>]
    /\ EngineBuilding
    /\ CacheIdle
    /\ ParserIdle
    /\ RaceIdle
    /\ AuxIdle

NextContext ==
    \/ AddDependency
    \/ Construct
    \/ Context
    \/ Symbols

SpecContext == InitContext /\ [][NextContext]_vars

(***************************************************************************)
(* SpecQueries: one QueryEngine asked all seven queries in any order by a  *)
(* caller that keeps a result and compares it with a later one             *)
(***************************************************************************)
\* the dependency lists and Function Dependencies of the queried result
DependencyLists == {<<>>, <<"F2", "F2">>, <<"F2", GhostId, "F1">>}
CallLists == {<<>>, <<[to_symbol |-> "S1", line_number |-> 12, context |-> "Baz()"]>>}

InitQueries ==
    /\ \E da \in DependencyLists, db \in {<<>>, <<"F1">>}, sa \in SymbolLists, cb \in CallLists :
           result = [root |-> RepoRoot,
                     files |-> <<[NewFile("a.py") EXCEPT !.dependencies = da, !.symbols = sa],
                                 [NewFile("b.py") EXCEPT !.dependencies = db,
                                                         !.function_dependencies = cb]>>]
    /\ EngineBuilding
    /\ CacheIdle
    /\ ParserIdle
    /\ RaceIdle
    /\ AuxIdle

\* search() with some of its filters
SearchSome ==
    SearchAmong({Absent, Given(PatPySuffix)}, {Absent, Given(0)}, {Absent}, HasSymbolArgs)

\* the caller puts the result it just got aside
Keep ==
    /\ engine = "ready"
    /\ qret.op # "none"
    /\ kept' = qret
    /\ qret' = QueryNone
    /\ UNCHANGED <<result, engine>>
    /\ IndicesUnchanged
    /\ UNCHANGED <<bfs, cli, registry, tsParser, snap>>
    /\ UNCHANGED <<cacheVars, saveVars, parserVars, raceVars>>

NextQueries ==
    \/ Construct
    \/ Callers
    \/ Dependents
    \/ Deps
    \/ Context
    \/ SearchSome
    \/ Path
    \/ Symbols
    \/ Keep

SpecQueries == InitQueries /\ [][NextQueries]_vars

(***************************************************************************)
(* The query CLI (cli.py): each command loads the result, builds an engine, *)
(* asks one query and ends the process                                     *)
(***************************************************************************)
\* raise typer.Exit(1) in the except clause of every query command
ExitOnError(error) == 1

\* the end of a command: what it printed, the error it reported on stderr,
\* and the exit code of the process
CliEnd(command, args, stdout, error) ==
    [command |-> command, args |-> args, stdout |-> stdout, error |-> error,
     exit_code |-> IF error = None THEN 0 ELSE ExitOnError(error)]

\* try: engine, _ = _load_engine(repo); out = engine.<query>(...); print(...)
\* except Exception as e: echo the error; raise typer.Exit(1)
\* loaded: whether load_or_analyze() returned; v: what the query did
CliRun(command, args, loaded, v) ==
    IF ~loaded THEN CliEnd(command, args, None, "load_or_analyze")
    ELSE IF v.raised # None THEN CliEnd(command, args, None, v.raised)
    ELSE CliEnd(command, args, v.returned, None)

CliFrame ==
    /\ UNCHANGED <<bfs, registry, tsParser, kept, snap>>
    /\ UNCHANGED <<cacheVars, saveVars, queryVars, parserVars, raceVars>>

query_callers ==
    /\ \E n \in QueryNames, loaded \in BOOLEAN :
           cli' = CliRun("callers", <<n>>, loaded,
                         Returned(CallersQuery(result.files, SymbolByName(result.files), n)))
    /\ CliFrame

query_dependents ==
    /\ \E p \in QueryPaths, loaded \in BOOLEAN :
           cli' = CliRun("dependents", <<p>>, loaded,
                         Returned(DependentsQuery(FileByPath(result.files), FileById(result.files),
                                                  ReverseDeps(result.files), p)))
    /\ CliFrame

query_deps ==
    /\ \E p \in QueryPaths, loaded \in BOOLEAN :
           cli' = CliRun("deps", <<p>>, loaded,
                         Returned(DepsQuery(FileByPath(result.files), FileById(result.files), p)))
    /\ CliFrame

query_context ==
    /\ \E p \in QueryPaths, loaded \in BOOLEAN :
           cli' = CliRun("context", <<p>>, loaded,
                         ContextQuery(FileByPath(result.files), FileById(result.files),
                                      ReverseDeps(result.files), p))
    /\ CliFrame

\* without any option the command ends before it loads anything
query_search ==
    /\ \E np \in {Absent, Given(PatPySuffix), Given(PatOpenSet)}, hs \in HasSymbolArgs,
          loaded \in BOOLEAN :
           cli' = IF ~np.given /\ ~hs.given
                  THEN CliEnd("search", <<np, Absent, Absent, hs>>, None,
                              "At least one search option must be provided")
                  ELSE CliRun("search", <<np, Absent, Absent, hs>>, loaded,
                              SearchQuery(result.files, np, Absent, Absent, hs))
    /\ CliFrame

query_path ==
    /\ \E a \in QueryPaths, b \in QueryPaths, loaded \in BOOLEAN :
           cli' = CliRun("path", <<a, b>>, loaded,
                         Returned(PathQuery(FileByPath(result.files), FileById(result.files), a, b)))
    /\ CliFrame

query_symbols ==
    /\ \E p \in QueryPaths, loaded \in BOOLEAN :
           cli' = CliRun("symbols", <<p>>, loaded, SymbolsQuery(FileByPath(result.files), p))
    /\ CliFrame

NextCli ==
    \/ query_callers
    \/ query_dependents
    \/ query_deps
    \/ query_context
    \/ query_search
    \/ query_path
    \/ query_symbols

SpecCli == InitQueries /\ [][NextCli]_vars

(***************************************************************************)
(* _ParserRegistry (adapters/parsers/__init__.py)                          *)
(***************************************************************************)
\* self._parser_factories: the languages that have an extractor class
Factories == {"python", "javascript", "typescript", "go"}

\* the members of Language asked for; "unknown" has no factory
Languages == Factories \cup {"unknown"}

\* get_parser returned None
NoParser == [of |-> None, serial |-> 0]

\* the extractor built by the n-th successful construction
Instance(language, n) == [of |-> language, serial |-> n]

\* a get_parser that builds a new extractor on every call
LookupAlwaysConstruct(reg, language, fails) ==
    IF language \in Factories
    THEN IF fails
         THEN [reg EXCEPT !.language = language, !.constructed = "failed",
                          !.returned = NoParser, !.raised = FALSE]
         ELSE [parsers |-> Put(reg.parsers, language, Instance(language, reg.made + 1)),
               made |-> reg.made + 1, language |-> language, constructed |-> "built",
               returned |-> Instance(language, reg.made + 1), raised |-> FALSE]
    ELSE [reg EXCEPT !.language = language, !.constructed = "no factory",
                     !.returned = NoParser, !.raised = FALSE]

\* get_parser(language); fails: whether the factory raises if it is called
Lookup(reg, language, fails) ==
    IF ~Has(reg.parsers, language) /\ language \in Factories
    THEN IF fails
         THEN [reg EXCEPT !.language = language, !.constructed = "failed",
                          !.returned = NoParser, !.raised = FALSE]
         ELSE [parsers |-> Put(reg.parsers, language, Instance(language, reg.made + 1)),
               made |-> reg.made + 1, language |-> language, constructed |-> "built",
               returned |-> Instance(language, reg.made + 1), raised |-> FALSE]
    ELSE [reg EXCEPT !.language = language,
                     !.constructed = IF Has(reg.parsers, language) THEN "cached" ELSE "no factory",
                     !.returned = IF Has(reg.parsers, language) THEN reg.parsers[language] ELSE NoParser,
                     !.raised = FALSE]

get_parser ==
    /\ registry.made <= Cardinality(Factories)
    /\ \E language \in Languages, fails \in BOOLEAN :
           registry' = Lookup(registry, language, fails)
    /\ UNCHANGED <<bfs, cli, tsParser, kept, snap>>
    /\ UNCHANGED <<cacheVars, saveVars, queryVars, parserVars, raceVars>>

\* _registry = _ParserRegistry()
InitRegistry ==
    /\ registry = [parsers |-> EmptyDict, made |-> 0, language |-> None,
                   constructed |-> "none", returned |-> NoParser, raised |-> FALSE]
    /\ bfs = [pc |-> "off"]
    /\ cli = [command |-> "none"]
    /\ tsParser = [state |-> "off"]
    /\ kept = [op |-> "none"]
    /\ snap = [op |-> "none"]
    /\ QueryIdle
    /\ CacheIdle
    /\ ParserIdle
    /\ RaceIdle

NextRegistry == get_parser

SpecRegistry == InitRegistry /\ [][NextRegistry]_vars

(***************************************************************************)
(* RuntimeDetector.detect_package_manager (snapshot/runtime.py)            *)
(***************************************************************************)
\* the files of the repository root the detector looks for
Markers == {"pnpm-lock.yaml", "package-lock.json", "yarn.lock", "poetry.lock",
            "Pipfile.lock", "requirements.txt", "pyproject.toml", "environment.yml"}

\* what pyproject.toml holds: a [tool.poetry] table, none, or no valid TOML
PyprojectKinds == {"poetry", "plain", "unparsable"}

\* the chain of exists() tests, in the order of the code
DetectPackageManager(present, pyproject) ==
    IF "pnpm-lock.yaml" \in present THEN "pnpm"
    ELSE IF "package-lock.json" \in present THEN "npm"
    ELSE IF "yarn.lock" \in present THEN "yarn"
    ELSE IF "poetry.lock" \in present THEN "poetry"
    ELSE IF "Pipfile.lock" \in present THEN "pipenv"
    ELSE IF "environment.yml" \in present THEN "conda"
    ELSE IF "requirements.txt" \in present THEN "pip"
    ELSE IF "pyproject.toml" \in present /\ pyproject = "poetry" THEN "poetry"
    ELSE IF "pyproject.toml" \in present /\ pyproject = "plain" THEN "pip"
    ELSE "unknown"

Detection(op, present, pyproject, package_manager) ==
    [op |-> op, present |-> present, pyproject |-> pyproject,
     package_manager |-> package_manager]

detect_package_manager ==
    /\ snap' = Detection("detect_package_manager", snap.present, snap.pyproject,
                         DetectPackageManager(snap.present, snap.pyproject))
    /\ UNCHANGED <<bfs, cli, registry, tsParser, kept>>
    /\ UNCHANGED <<cacheVars, saveVars, queryVars, parserVars, raceVars>>

\* RuntimeDetector(repo_root) over a root with any of the marker files
InitRuntime ==
    /\ \E present \in SUBSET Markers, pyproject \in PyprojectKinds :
           snap = Detection("none", present, pyproject, None)
    /\ bfs = [pc |-> "off"]
    /\ cli = [command |-> "none"]
    /\ registry = [parsers |-> <<>>]
    /\ tsParser = [state |-> "off"]
    /\ kept = [op |-> "none"]
    /\ QueryIdle
    /\ CacheIdle
    /\ ParserIdle
    /\ RaceIdle

NextRuntime == detect_package_manager

SpecRuntime == InitRuntime /\ [][NextRuntime]_vars

(***************************************************************************)
(* RepoSnapshotBuilder._build_structure (snapshot/builder.py)              *)
(***************************************************************************)
\* a pathlib.Path: the platform's flavour, the drive, whether it starts at the
\* root directory, and its parts
PurePath(flavour, drive, rooted, parts) ==
    [flavour |-> flavour, drive |-> drive, rooted |-> rooted, parts |-> parts]

\* the parts joined by sep
RECURSIVE Joined(_, _)
Joined(parts, sep) ==
    IF parts = <<>> THEN <<>>
    ELSE IF Len(parts) = 1 THEN parts
    ELSE <<Head(parts), sep>> \o Joined(Tail(parts), sep)

\* Path.as_posix(): forward slashes on every platform, the drive kept
AsPosix(path) ==
    (IF path.drive = "" THEN <<>> ELSE <<path.drive>>)
        \o (IF path.rooted THEN <<"/">> ELSE <<>>) \o Joined(path.parts, "/")

\* str(path): the platform's own separator
Str(path) ==
    LET sep == IF path.flavour = "windows" THEN "\\" ELSE "/" IN
    (IF path.drive = "" THEN <<>> ELSE <<path.drive>>)
        \o (IF path.rooted THEN <<sep>> ELSE <<>>) \o Joined(path.parts, sep)

\* UUID(bytes=hashlib.sha256(canonical).digest()[:16]): the hash taken as
\* collision-free
HashUuid(canonical) == <<"uuid", canonical>>

\* _generate_deterministic_uuid: canonical = f"{repo_root}::{file_path}"
GenerateDeterministicUuid(file_path, repo_root) == HashUuid(<<repo_root, "::", file_path>>)

\* where the analysed repository lies: analysis.root
SnapshotRoots == {PurePath("posix", "", TRUE, <<"repo">>),
                  PurePath("posix", "", TRUE, <<"home", "repo">>),
                  PurePath("windows", "C:", TRUE, <<"repo">>)}

\* the repository-relative files of the analysis, as lists of parts
RelativeFiles == {<<>>, <<<<"README.md">>>>, <<<<"src", "file.py">>>>,
                  <<<<"src", "file.py">>, <<"README.md">>>>,
                  <<<<"README.md">>, <<"src", "file.py">>>>}

\* file_info.path of the i-th file, on the platform of the root
FileInfoPath(root, files, i) == PurePath(root.flavour, "", FALSE, files[i])

\* uuid_mapping, by position: the deterministic uuid of each file
UuidMapping(root, files) ==
    [i \in 1..Len(files) |->
        GenerateDeterministicUuid(AsPosix(FileInfoPath(root, files, i)), AsPosix(root))]

\* file_index[str(det_uuid)] = str(file_info.path), as a dict
FileIndex(root, files) ==
    LET ids == UuidMapping(root, files) IN
    [u \in {ids[i] : i \in 1..Len(files)} |->
        Str(FileInfoPath(root, files, CHOOSE i \in 1..Len(files) :
                /\ ids[i] = u
                /\ \A j \in (i + 1)..Len(files) : ids[j] # u))]

\* one _build_structure: the analysis it got and what it made of it
Structured(root, files) ==
    [op |-> "build", root |-> root, files |-> files,
     uuids |-> UuidMapping(root, files), file_index |-> FileIndex(root, files)]

\* RepoSnapshotBuilder(repo_root).build(analysis_result); the run before is kept
build ==
    /\ \E root \in SnapshotRoots, files \in RelativeFiles :
           snap' = [last |-> Structured(root, files), before |-> snap.last]
    /\ UNCHANGED <<bfs, cli, registry, tsParser, kept>>
    /\ UNCHANGED <<cacheVars, saveVars, queryVars, parserVars, raceVars>>

InitSnapshot ==
    /\ snap = [last |-> [op |-> "none"], before |-> [op |-> "none"]]
    /\ bfs = [pc |-> "off"]
    /\ cli = [command |-> "none"]
    /\ registry = [parsers |-> <<>>]
    /\ tsParser = [state |-> "off"]
    /\ kept = [op |-> "none"]
    /\ QueryIdle
    /\ CacheIdle
    /\ ParserIdle
    /\ RaceIdle

NextSnapshot == build

SpecSnapshot == InitSnapshot /\ [][NextSnapshot]_vars

(***************************************************************************)
(* The Language Extractors: extract_code_structure                         *)
(* (adapters/parsers/javascript_parser.py, typescript_parser.py)           *)
(***************************************************************************)
\* number of named declarations in the source file
MaxDecls == 2

\* absolute locations of the repository root (two checkouts)
Roots == {"/repo", "/checkout"}
\* the repository-relative path of the source file
SourceRel == "src/m"

DeclKinds == {"function", "class"}
DeclNames == {"_g", "f"}
Lines == {1, 2}
Columns == {0, 8}

\* a named declaration node of the parse tree, with its start point
Decls == [kind : DeclKinds, name : DeclNames, line : Lines, col : Columns]

Before(d, e) == d.line < e.line \/ (d.line = e.line /\ d.col < e.col)

\* the declarations of a file in document order: start points differ
DeclLists ==
    UNION {{ds \in [1..n -> Decls] : \A i \in 1..(n - 1) : Before(ds[i], ds[i + 1])} :
              n \in 0..MaxDecls}

\* the import statements of a file, by specifier
ImportLists == {<<>>, <<"./c", "./b">>}

\* the step of an extraction at which tree-sitter or the file system fails
FailSteps == {"none", "init", "read", "decode", "parse", "imports", "symbols",
              "exports", "metadata"}

SourceFiles == [extractor : {"javascript", "typescript"}, rel : {SourceRel},
                decls : DeclLists, imports : ImportLists, fail : FailSteps]

\* file_path, as the caller passes it: the root's location joined with rel
FilePath(root, rel) == [root |-> root, rel |-> rel]

\* str(file_path)
PathStr(fp) == <<fp.root, "/", fp.rel>>

\* file_path.relative_to(repo_path): ValueError when file_path is not under it
RelativeTo(fp, repo_path) == IF fp.root = repo_path THEN fp.rel ELSE "ValueError"

\* UUID(hashlib.sha256(key).hexdigest()[:32]): the hash taken as collision-free
Uuid(key) == <<"uuid", key>>

\* order of str values under Python's comparison
StrRank(x) == IF x = "_g" THEN 1 ELSE IF x = "class" THEN 2 ELSE IF x = "f" THEN 3
              ELSE IF x = "function" THEN 4 ELSE 5

\* key=lambda s: (s.line_start, s.symbol_type, s.name)
SymbolKeyLess(a, b) ==
    \/ a.line_start < b.line_start
    \/ a.line_start = b.line_start /\ StrRank(a.symbol_type) < StrRank(b.symbol_type)
    \/ a.line_start = b.line_start /\ a.symbol_type = b.symbol_type
           /\ StrRank(a.name) < StrRank(b.name)

\* insert x into the sorted list after every element that is not greater
RECURSIVE InsertSymbol(_, _)
InsertSymbol(sorted, x) ==
    IF sorted = <<>> THEN <<x>>
    ELSE IF SymbolKeyLess(x, Head(sorted)) THEN <<x>> \o sorted
    ELSE <<Head(sorted)>> \o InsertSymbol(Tail(sorted), x)

\* symbols.sort(key=...): a stable sort
SortSymbols(syms) ==
    LET f[i \in 0..Len(syms)] == IF i = 0 THEN <<>> ELSE InsertSymbol(f[i - 1], syms[i])
    IN  f[Len(syms)]

\* order of the import specifiers under Python's str comparison
ImportRank(x) == IF x = "./b" THEN 1 ELSE IF x = "./c" THEN 2 ELSE 3

RECURSIVE InsertImport(_, _)
InsertImport(sorted, x) ==
    IF sorted = <<>> THEN <<x>>
    ELSE IF ImportRank(x) < ImportRank(Head(sorted)) THEN <<x>> \o sorted
    ELSE <<Head(sorted)>> \o InsertImport(Tail(sorted), x)

\* imports.sort()
SortImports(imps) ==
    LET f[i \in 0..Len(imps)] == IF i = 0 THEN <<>> ELSE InsertImport(f[i - 1], imps[i])
    IN  f[Len(imps)]

\* exports.sort(key=lambda e: e.name)
RECURSIVE InsertExport(_, _)
InsertExport(sorted, x) ==
    IF sorted = <<>> THEN <<x>>
    ELSE IF StrRank(x.name) < StrRank(Head(sorted).name) THEN <<x>> \o sorted
    ELSE <<Head(sorted)>> \o InsertExport(Tail(sorted), x)

SortExports(exps) ==
    LET f[i \in 0..Len(exps)] == IF i = 0 THEN <<>> ELSE InsertExport(f[i - 1], exps[i])
    IN  f[Len(exps)]

\* a declaration is exported unless its name starts with an underscore
IsExported(name) == name # "_g"

\* what extract_code_structure returns
Structure(syms, exps, imps, meta) ==
    [raised |-> None, symbols |-> syms, exports |-> exps, function_deps |-> <<>>,
     imports |-> imps, metadata |-> meta]

\* [], [], [], [], {}
EmptyStructure == Structure(<<>>, <<>>, <<>>, EmptyDict)

\* the position of a step in the order the extractor takes them
StepIndex(steps, step) == CHOOSE i \in 1..Len(steps) : steps[i] = step

\* the extraction fails at a step before `step`, or at it
FailsBy(steps, fail, step) ==
    \E i \in 1..Len(steps) : steps[i] = fail /\ i <= StepIndex(steps, step)

(***************************************************************************)
(* JavaScriptParser                                                        *)
(***************************************************************************)
JsSteps == <<"read", "decode", "parse", "imports", "symbols", "exports", "metadata">>

\* JavaScriptParser._create_symbol
JsCreateSymbol(d, fp, repo_path) ==
    [name |-> d.name, symbol_type |-> d.kind, line_start |-> d.line, line_end |-> d.line,
     is_private |-> (d.name = "_g"),
     id |-> Uuid(<<RelativeTo(fp, repo_path), "#", d.kind, "#", d.name, "#",
                   d.line, ":", d.col, "-", d.line, ":", d.col + 6>>)]

\* JavaScriptParser._extract_symbols raises when _create_symbol does
JsSymbolsRaise(file, fp, repo_path) ==
    file.decls # <<>> /\ RelativeTo(fp, repo_path) = "ValueError"

JsExtractSymbols(file, fp, repo_path) ==
    [k \in 1..Len(file.decls) |-> JsCreateSymbol(file.decls[k], fp, repo_path)]

\* JavaScriptParser._extract_imports: one entry per import source, named here
\* by its specifier
JsExtractImports(file) ==
    [k \in 1..Len(file.imports) |-> file.imports[k]]

\* symbol_map = {s.name: s.id for s in symbols}
SymbolMap(syms) ==
    LET f[i \in 0..Len(syms)] == IF i = 0 THEN EmptyDict
                                 ELSE Put(f[i - 1], syms[i].name, syms[i].id)
    IN  f[Len(syms)]

\* JavaScriptParser._extract_exports: one export per exported name
JsExtractExports(file, syms) ==
    LET f[k \in 0..Len(file.decls)] ==
            IF k = 0 THEN <<>>
            ELSE IF IsExported(file.decls[k].name)
                 THEN Append(f[k - 1], [name |-> file.decls[k].name, export_type |-> "unknown",
                                        symbol_id |-> SymbolMap(syms)[file.decls[k].name]])
                 ELSE f[k - 1]
    IN  f[Len(file.decls)]

\* JavaScriptParser._calculate_metadata
JsMetadata(syms) == [complexity_score |-> 1, symbol_count |-> Len(syms)]

\* the step at which this run fails ("none": it does not); a tree-sitter that
\* cannot be initialised fails self._get_parser(), before the parse
JsFailure(file, fp, repo_path) ==
    IF file.fail = "init" THEN "parse"
    ELSE IF file.fail \in {"read", "decode", "parse", "imports"} THEN file.fail
    ELSE IF JsSymbolsRaise(file, fp, repo_path) THEN "symbols"
    ELSE file.fail

\* JavaScriptParser.extract_code_structure: what each step assigned before the
\* failure is kept, then sorted
JsStructure(file, fp, repo_path) ==
    LET fail == JsFailure(file, fp, repo_path)
        done(step) == fail = "none" \/ ~FailsBy(JsSteps, fail, step)
        imps == IF done("imports") THEN JsExtractImports(file) ELSE <<>>
        syms == IF done("symbols") THEN JsExtractSymbols(file, fp, repo_path) ELSE <<>>
        exps == IF done("exports") THEN JsExtractExports(file, syms) ELSE <<>>
        meta == IF done("metadata") THEN JsMetadata(syms) ELSE EmptyDict
    IN  Structure(SortSymbols(syms), SortExports(exps), SortImports(imps), meta)

(***************************************************************************)
(* TypeScriptParser                                                        *)
(***************************************************************************)
\* TypeScriptParser._generate_symbol_id(file_path, kind, name, line)
GenerateSymbolId(file_path_str, kind, name, line) ==
    Uuid(<<file_path_str, ":", kind, ":", name, ":", line>>)

\* TypeScriptParser._create_function_symbol, _create_class_symbol
TsCreateSymbol(d, file_path_str) ==
    [name |-> d.name, symbol_type |-> d.kind, line_start |-> d.line, line_end |-> d.line,
     is_private |-> (d.name = "_g"),
     id |-> GenerateSymbolId(file_path_str, d.kind, d.name, d.line)]

\* TypeScriptParser._extract_symbols: file_path_str = str(file_path)
TsExtractSymbols(file, fp) ==
    [k \in 1..Len(file.decls) |-> TsCreateSymbol(file.decls[k], PathStr(fp))]

\* TypeScriptParser._extract_imports
TsExtractImports(file) ==
    [k \in 1..Len(file.imports) |-> file.imports[k]]

\* TypeScriptParser._extract_api_exports
TsExtractExports(file, syms) ==
    LET f[k \in 0..Len(syms)] ==
            IF k = 0 THEN <<>>
            ELSE IF IsExported(syms[k].name)
                 THEN Append(f[k - 1], [name |-> syms[k].name,
                                        export_type |-> syms[k].symbol_type,
                                        symbol_id |-> syms[k].id])
                 ELSE f[k - 1]
    IN  f[Len(syms)]

\* TypeScriptParser._calculate_metadata
TsMetadata(file) ==
    [total_functions |-> Cardinality({k \in 1..Len(file.decls) : file.decls[k].kind = "function"}),
     total_classes |-> Cardinality({k \in 1..Len(file.decls) : file.decls[k].kind = "class"})]

\* TypeScriptParser.extract_code_structure
TsStructure(file, fp, repo_path) ==
    IF file.fail # "none" THEN EmptyStructure
    ELSE LET syms == TsExtractSymbols(file, fp) IN
         Structure(SortSymbols(syms), SortExports(TsExtractExports(file, syms)),
                   SortImports(TsExtractImports(file)), TsMetadata(file))

(***************************************************************************)
(* SpecExtract: one source file, extracted repeatedly                      *)
(***************************************************************************)
\* the arguments of a run: where the file lies, and the repo_path given
RunArgs == {<<root, root>> : root \in Roots} \cup {<<"/checkout", "/repo">>}

Run(op, args, out) == [op |-> op, root |-> args[1], repo_path |-> args[2], out |-> out]

JsExtractCodeStructure ==
    /\ xfile.extractor = "javascript"
    /\ \E args \in RunArgs :
           xrun' = Run("extract_code_structure", args,
                       JsStructure(xfile, FilePath(args[1], xfile.rel), args[2]))
    /\ xprev' = xrun
    /\ UNCHANGED xfile
    /\ UNCHANGED <<cacheVars, saveVars, queryVars, raceVars, auxVars>>

TsExtractCodeStructure ==
    /\ xfile.extractor = "typescript"
    /\ \E args \in RunArgs :
           xrun' = Run("extract_code_structure", args,
                       TsStructure(xfile, FilePath(args[1], xfile.rel), args[2]))
    /\ xprev' = xrun
    /\ UNCHANGED xfile
    /\ UNCHANGED <<cacheVars, saveVars, queryVars, raceVars, auxVars>>

InitExtract ==
    /\ xfile \in SourceFiles
    /\ xrun = [op |-> "none"]
    /\ xprev = [op |-> "none"]
    /\ QueryIdle
    /\ CacheIdle
    /\ RaceIdle
    /\ AuxIdle

NextExtract ==
    \/ JsExtractCodeStructure
    \/ TsExtractCodeStructure

SpecExtract == InitExtract /\ [][NextExtract]_vars

(***************************************************************************)
(* The Language Extractors: extract_dependencies                           *)
(***************************************************************************)
\* number of import statements (Go: imported packages) of the source file
MaxImports == 2

\* import specifiers: two relative ones and a package-registry one
Specifiers == {"./b", "./c", "lodash"}

\* the files under the repository root that the specifiers can resolve to
RepoFiles == {"src/b.js", "src/b.ts", "src/c.js"}

\* order of the repository-relative paths under Python's str comparison
PathRank(x) == IF x = "a-b/x.go" THEN 1 ELSE IF x = "a/y.go" THEN 2
               ELSE IF x = "a/z.go" THEN 3 ELSE IF x = "src/b.js" THEN 4
               ELSE IF x = "src/b.ts" THEN 5 ELSE IF x = "src/c.js" THEN 6 ELSE 7

\* the members of a set of paths in ascending order: sorted(list(set(...)))
RECURSIVE SortedPaths(_)
SortedPaths(S) ==
    IF S = {} THEN <<>>
    ELSE LET least == CHOOSE x \in S : \A y \in S : PathRank(x) <= PathRank(y)
         IN  <<least>> \o SortedPaths(S \ {least})

\* target_path.with_suffix(ext), relative to the repository root
WithSuffix(import_path, ext) ==
    IF import_path = "./b" THEN (IF ext = ".js" THEN "src/b.js"
                                 ELSE IF ext = ".ts" THEN "src/b.ts"
                                 ELSE IF ext = ".jsx" THEN "src/b.jsx" ELSE "src/b.tsx")
    ELSE (IF ext = ".js" THEN "src/c.js"
          ELSE IF ext = ".ts" THEN "src/c.ts"
          ELSE IF ext = ".jsx" THEN "src/c.jsx" ELSE "src/c.tsx")

\* _resolve_import_path: the candidates that exist, in the order of the
\* extensions; a candidate outside repo_path is dropped (ValueError: pass)
ResolveImportPath(import_path, extensions, fp, repo_path) ==
    IF import_path \notin {"./b", "./c"} THEN <<>>
    ELSE LET f[k \in 0..Len(extensions)] ==
                 IF k = 0 THEN <<>>
                 ELSE IF /\ WithSuffix(import_path, extensions[k]) \in RepoFiles
                         /\ RelativeTo(fp, repo_path) # "ValueError"
                      THEN Append(f[k - 1], WithSuffix(import_path, extensions[k]))
                      ELSE f[k - 1]
         IN  f[Len(extensions)]

\* for node, capture_name in captures: dependencies.extend(deps)
ResolveAll(captures, extensions, fp, repo_path) ==
    LET f[k \in 0..Len(captures)] ==
            IF k = 0 THEN <<>>
            ELSE f[k - 1] \o ResolveImportPath(captures[k], extensions, fp, repo_path)
    IN  f[Len(captures)]

Range(seq) == {seq[k] : k \in 1..Len(seq)}

\* JavaScriptParser._get_file_extensions
JsFileExtensions == <<".js", ".jsx">>

\* TypeScriptParser._get_file_extensions
TsFileExtensions == <<".ts", ".tsx", ".js", ".jsx">>

\* the JavaScript query captures each import source once
JsCaptures(file) == file.imports

\* the TypeScript query names import_statement in two patterns (@import and
\* @dynamic_import): each import source is captured twice
TsCaptures(file) ==
    [k \in 1..(2 * Len(file.imports)) |-> file.imports[(k + 1) \div 2]]

\* JavaScriptParser.extract_dependencies
JsDependencies(file, fp, repo_path) ==
    IF file.fail # "none" THEN SortedPaths({})
    ELSE SortedPaths(Range(ResolveAll(JsCaptures(file), JsFileExtensions, fp, repo_path)))

\* TypeScriptParser.extract_dependencies
TsDependencies(file, fp, repo_path) ==
    IF file.fail # "none" THEN <<>>
    ELSE ResolveAll(TsCaptures(file), TsFileExtensions, fp, repo_path)

\* the packages `go list -json ./...` reports: import path -> GoFiles
GoPackages == {"fmt", "mod/a", "mod/a-b"}
GoFiles(pkg) == IF pkg = "mod/a" THEN <<"a/y.go", "a/z.go">>
                ELSE IF pkg = "mod/a-b" THEN <<"a-b/x.go">> ELSE <<>>
\* order of the import paths, as `go list` sorts Imports
GoImportRank(pkg) == IF pkg = "fmt" THEN 1 ELSE IF pkg = "mod/a" THEN 2 ELSE 3

\* imp.startswith(module_path), the module path being "mod"
IsLocalImport(pkg) == pkg \in {"mod/a", "mod/a-b"}

\* GoParser.extract_dependencies
GoDependencies(file, fp, repo_path) ==
    IF file.fail # "none" \/ RelativeTo(fp, repo_path) = "ValueError" THEN <<>>
    ELSE LET f[k \in 0..Len(file.imports)] ==
                 IF k = 0 THEN <<>>
                 ELSE IF IsLocalImport(file.imports[k])
                      THEN f[k - 1] \o GoFiles(file.imports[k])
                      ELSE f[k - 1]
         IN  f[Len(file.imports)]

\* the import statements of a JavaScript or TypeScript file
StatementLists == UNION {[1..n -> Specifiers] : n \in 0..MaxImports}

\* the Imports of a Go package: no path twice, in ascending order
GoImportLists ==
    UNION {{ps \in [1..n -> GoPackages] :
               \A i \in 1..(n - 1) : GoImportRank(ps[i]) < GoImportRank(ps[i + 1])} :
              n \in 0..MaxImports}

ImportingFiles ==
    [extractor : {"javascript", "typescript"}, rel : {SourceRel}, decls : {<<>>},
     imports : StatementLists, fail : {"none", "read"}]
    \cup [extractor : {"go"}, rel : {SourceRel}, decls : {<<>>},
          imports : GoImportLists, fail : {"none", "read"}]

JsExtractDependencies ==
    /\ xfile.extractor = "javascript"
    /\ \E args \in RunArgs :
           xrun' = Run("extract_dependencies", args,
                       JsDependencies(xfile, FilePath(args[1], xfile.rel), args[2]))
    /\ xprev' = xrun
    /\ UNCHANGED xfile
    /\ UNCHANGED <<cacheVars, saveVars, queryVars, raceVars, auxVars>>

TsExtractDependencies ==
    /\ xfile.extractor = "typescript"
    /\ \E args \in RunArgs :
           xrun' = Run("extract_dependencies", args,
                       TsDependencies(xfile, FilePath(args[1], xfile.rel), args[2]))
    /\ xprev' = xrun
    /\ UNCHANGED xfile
    /\ UNCHANGED <<cacheVars, saveVars, queryVars, raceVars, auxVars>>

GoExtractDependencies ==
    /\ xfile.extractor = "go"
    /\ \E args \in RunArgs :
           xrun' = Run("extract_dependencies", args,
                       GoDependencies(xfile, FilePath(args[1], xfile.rel), args[2]))
    /\ xprev' = xrun
    /\ UNCHANGED xfile
    /\ UNCHANGED <<cacheVars, saveVars, queryVars, raceVars, auxVars>>

InitImports ==
    /\ xfile \in ImportingFiles
    /\ xrun = [op |-> "none"]
    /\ xprev = [op |-> "none"]
    /\ QueryIdle
    /\ CacheIdle
    /\ RaceIdle
    /\ AuxIdle

NextImports ==
    \/ JsExtractDependencies
    \/ TsExtractDependencies
    \/ GoExtractDependencies

SpecImports == InitImports /\ [][NextImports]_vars

(***************************************************************************)
(* Claims about the CacheManager, checked under Spec                       *)
(***************************************************************************)
\* cache.json holds an envelope load() can decode
Decodable(cf) == cf.kind = "object" /\ cf.ver = "1" /\ ValidPayload(cf.payload)

\* the file of File Record fi is missing, or is a file with other bytes
MissingOrDiffers(fi, d) ==
    \/ d[fi.path].kind = "missing"
    \/ d[fi.path].kind = "file" /\ Sha256(d[fi.path].bytes) # fi.sha256

\* C1: load() returns a result only if cache.json exists with schema_version
\* "1" and every File Record's file exists with the recorded hash; and if any
\* tracked file is missing or differs, load() returns absent.
C1_LoadNeverStale ==
    ret.op = "load" =>
        /\ ret.kind = "result" =>
               /\ Decodable(cacheFile)
               /\ ret.val = Validate(cacheFile.payload)
               /\ Fresh(ret.val, disk)
        /\ (/\ Decodable(cacheFile)
            /\ \E i \in 1..Len(cacheFile.payload.files) :
                   MissingOrDiffers(Validate(cacheFile.payload).files[i], disk))
           => ret.kind = "absent"

\* C2: after save(result) with every hash matching, changing or deleting one
\* tracked file makes load() return absent and leaves cache.json as saved;
\* restoring the file's bytes makes the next load() return the result again.
C2_StalenessReversible ==
    /\ (scn.phase = "changedLoaded" /\ ret.op = "load") =>
           /\ ret.kind = "absent"
           /\ cacheFile = Serialised(scn.result)
    /\ (scn.phase = "restoredLoaded" /\ ret.op = "load") =>
           /\ ret.kind = "result"
           /\ ret.val = scn.result
           /\ cacheFile = Serialised(scn.result)

C2_Witness ==
    /\ scn.phase = "restoredLoaded"
    /\ ret.op = "load"
    /\ ret.kind = "result"
    /\ Len(scn.result.files) = 2

\* C3: save(result) with every hash matching, then load() with no file
\* changed, returns a result with as many File Records, the same paths and
\* the same content hashes.
C3_RoundTrip ==
    (scn.phase = "savedLoaded" /\ ret.op = "load") =>
        /\ ret.kind = "result"
        /\ Len(ret.val.files) = Len(scn.result.files)
        /\ \A i \in 1..Len(scn.result.files) :
               /\ ret.val.files[i].path = scn.result.files[i].path
               /\ ret.val.files[i].sha256 = scn.result.files[i].sha256

C3_Witness ==
    /\ scn.phase = "savedLoaded"
    /\ ret.op = "load"
    /\ Len(scn.result.files) = 2
    /\ scn.result.files[1].sha256 # scn.result.files[2].sha256

\* C4: load() never raises, whatever the cache file and the tracked files are.
C4_LoadNeverRaises == ret.op = "load" => ret.kind # "raise"

\* C6: load_or_analyze() returns a fresh cached result without invoking the
\* analyzer or writing the cache; otherwise it invokes the analyzer once,
\* calls save() once with the analyzer's result and returns that result, or
\* raises when that save() fails.
C6_LoadOrAnalyze ==
    ret.op = "loa" =>
        /\ ret.loaded = "result" =>
               /\ ret.kind = "result"
               /\ ret.val = LoadOutcome(cacheFile, disk).val
               /\ ret.analyzed = 0
               /\ ret.saves = 0
               /\ ~ret.wrote
        /\ ret.loaded # "result" =>
               /\ ret.analyzed = 1
               /\ ret.saves = 1
               /\ ret.savedArg \in AnalyzeResults(disk)
               /\ ret.wrote => (ret.kind = "result" /\ ret.val = ret.savedArg
                                /\ cacheFile = Serialised(ret.savedArg))
               /\ ~ret.wrote => ret.kind = "raise"

C5_SaveAtomic ==
    /\ cacheFile.kind # "partial"
    /\ saveArg = NoResult => cacheFile = saveOld
    /\ saveArg # NoResult =>
           /\ cacheFile \in {saveOld, Serialised(saveArg)}
           /\ savePc \in {"mkdir", "mkstemp", "write", "replace", "cleanup"} => cacheFile = saveOld
           /\ (savePc = "idle" /\ ret.op = "save" /\ ret.kind = "raise") => cacheFile = saveOld
           /\ (savePc = "idle" /\ ret.op = "save" /\ ret.kind = "ok") => cacheFile = Serialised(saveArg)
           /\ ret.op = "load" =>
                  Outcome(ret.kind, ret.val) \in
                      {LoadOutcome(saveOld, disk), LoadOutcome(Serialised(saveArg), disk)}

\* a save() failed after it had written its temp file, cache.json existing
C5_Witness ==
    /\ savePc = "idle"
    /\ ret.op = "save"
    /\ ret.kind = "raise"
    /\ saveOld.kind = "object"
    /\ saveArg # NoResult
    /\ Serialised(saveArg) # saveOld
    /\ leftover

\* the temp file of the last save() still lies in the cache directory
TempFileExists == tmp \in {"empty", "partial", "full"}

SaveEnded == savePc = "idle" /\ ret.op = "save"

\* C19: a save() that fails while writing or renaming its temp file removes
\* the temp file, leaves cache.json as it was and raises; after a save() that
\* returns, cache.json is the new envelope and the cache directory holds no
\* temp file.
C19_SaveFailureCleansUp ==
    SaveEnded =>
        /\ ret.kind = "raise" => (~TempFileExists /\ cacheFile = saveOld)
        /\ ret.kind = "ok" =>
               /\ cacheFile = Serialised(saveArg)
               /\ ~TempFileExists
               /\ ~leftover

\* C19, amended: a save() that fails while writing or renaming its temp file
\* tries to remove it, leaves cache.json as it was and raises; the temp file
\* stays behind only when removing it failed as well. A save() that returns
\* has renamed its own temp file onto cache.json.
C19_SaveFailureBestEffort ==
    SaveEnded =>
        /\ ret.kind = "raise" =>
               /\ cacheFile = saveOld
               /\ TempFileExists => leftover
        /\ ret.kind = "ok" =>
               /\ cacheFile = Serialised(saveArg)
               /\ tmp = "renamed"
        /\ tmp # "renamed" => ret.kind = "raise"

\* a save() over an existing cache failed after making its temp file, removed
\* it and raised
C19_Witness ==
    /\ SaveEnded
    /\ ret.kind = "raise"
    /\ tmp = "removed"
    /\ ~leftover
    /\ saveOld.kind = "object"
    /\ cacheFile = saveOld
    /\ Serialised(saveArg) # saveOld

(***************************************************************************)
(* Claims about clear() and status(), checked under SpecStatus             *)
(***************************************************************************)
FileSystem == <<disk, cacheDir, cacheFile, tmp, leftover>>

\* after a clear() nothing is at the cache path and clear() raised nothing;
\* until a save() runs, load() returns absent and status() reports no cache
ClearedState ==
    /\ ret.op = "clear" => (ret.kind = "ok" /\ cacheFile = NoFile)
    /\ scn.phase = "cleared" =>
           /\ cacheFile = NoFile
           /\ ret.op = "load" => ret.kind = "absent"
           /\ ret.op = "status" => (~ret.exists /\ ~ret.stale /\ ret.file_count = 0)

\* a clear() right after a clear() changes nothing and returns the same
ClearTwice ==
    (ret.op = "clear" /\ ret'.op = "clear") => (FileSystem' = FileSystem /\ ret' = ret)

\* C21: clear() deletes the cache file if there is one and otherwise does
\* nothing and raises nothing; clear() after clear() changes nothing; from a
\* clear() to the next save() every load() returns absent and status()
\* reports exists = false.
C21_ClearThenAbsent == []ClearedState /\ [][ClearTwice]_vars

\* status() reports no cache after a clear() that deleted a usable cache file
C21_Witness ==
    /\ scn.phase = "cleared"
    /\ ret.op = "status"
    /\ ~ret.exists
    /\ cacheDir
    /\ \E p \in Paths : disk[p].kind = "file"

\* C22: status().stale is false when there is no cache file; when there is
\* one it is true exactly when load() in the same state returns absent; so
\* load() returns a result exactly when status() reports exists and not stale.
C22_StatusAgreesWithLoad ==
    ret.op = "status" =>
        LET lo == LoadOutcome(cacheFile, disk) IN
        /\ ~ret.exists => ~ret.stale
        /\ ret.exists => (ret.stale <=> lo.kind = "absent")
        /\ lo.kind = "result" <=> (ret.exists /\ ~ret.stale)

(***************************************************************************)
(* Claims about concurrent saves, checked under SpecRace                   *)
(***************************************************************************)
AllReturned == \A p \in Savers : savers[p].pc = "returned"

\* C20: however two concurrent save() calls on one cache path interleave,
\* each writes a temp file of its own, cache.json is at every moment the
\* content found at the start or one caller's whole envelope, that of the
\* caller whose rename came last, and no temp file is left once both returned.
C20_ConcurrentSaves ==
    /\ \A p, q \in Savers :
           (p # q /\ HoldsTemp(p) /\ HoldsTemp(q)) =>
               savers[p].tmp_path # savers[q].tmp_path
    /\ \A p \in Savers :
           HoldsTemp(p) =>
               /\ savers[p].tmp_path \in DOMAIN tmpFiles
               /\ tmpFiles[savers[p].tmp_path] \in {Partial, Serialised(savers[p].arg)}
               /\ savers[p].pc = "replace" =>
                      tmpFiles[savers[p].tmp_path] = Serialised(savers[p].arg)
    /\ Renames = 0 => cacheFile = saveOld
    /\ \A p \in Savers :
           (Renames > 0 /\ savers[p].renamed = Renames) =>
               cacheFile = Serialised(savers[p].arg)
    /\ AllReturned => DOMAIN tmpFiles = {}

\* both callers returned after holding their temp files at the same time, and
\* A, whose rename came second, saved something else than B
C20_Witness ==
    /\ AllReturned
    /\ savers["A"].met /\ savers["B"].met
    /\ savers["A"].renamed = 2
    /\ savers["B"].renamed = 1
    /\ savers["A"].arg # savers["B"].arg
    /\ saveOld \notin {Serialised(savers["A"].arg), Serialised(savers["B"].arg)}
    /\ cacheFile = Serialised(savers["A"].arg)

(***************************************************************************)
(* Claims about QueryEngine.path, checked under SpecPath                   *)
(***************************************************************************)
KnownPath(p) == \E i \in 1..FileCount : result.files[i].path = p

\* file x lists the identifier of file y, a File Record of the result
DependsOn(x, y) ==
    \E i, j \in 1..FileCount :
        /\ result.files[i].path = x
        /\ result.files[j].path = y
        /\ \E k \in 1..Len(result.files[i].dependencies) :
               result.files[i].dependencies[k] = result.files[j].id

KnownPaths == {result.files[i].path : i \in 1..FileCount}

\* the files reached from the set S in at most n steps
RECURSIVE Within(_, _)
Within(S, n) ==
    IF n = 0 THEN S
    ELSE LET W == Within(S, n - 1) IN W \cup {y \in KnownPaths : \E x \in W : DependsOn(x, y)}

Reachable(a, b) == b \in Within({a}, FileCount)

\* the least number of edges of a dependency path from a to b (b reachable)
Distance(a, b) == CHOOSE n \in 0..FileCount :
                      /\ b \in Within({a}, n)
                      /\ \A m \in 0..(n - 1) : b \notin Within({a}, m)

PathAsked == qret.op = "path"

\* C8: for distinct known a and b, found holds exactly when b is reachable
\* from a along dependencies; then the path runs from a to b along edges;
\* otherwise the path is empty.
C8_PathCorrect ==
    (PathAsked /\ qret.args[1] # qret.args[2]
       /\ KnownPath(qret.args[1]) /\ KnownPath(qret.args[2])) =>
        LET a == qret.args[1]
            b == qret.args[2]
            v == qret.value
        IN  /\ v.found <=> Reachable(a, b)
            /\ v.found =>
                   /\ Len(v.path) >= 2
                   /\ v.path[1] = a
                   /\ v.path[Len(v.path)] = b
                   /\ \A k \in 1..(Len(v.path) - 1) : DependsOn(v.path[k], v.path[k + 1])
            /\ ~v.found => v.path = <<>>

\* a path of two edges was found in a graph that also has an edge to a ghost
C8_Witness ==
    /\ PathAsked
    /\ qret.value.found
    /\ Len(qret.value.path) = 3
    /\ \E i \in 1..FileCount : \E k \in 1..Len(result.files[i].dependencies) :
           result.files[i].dependencies[k] = GhostId

\* C9: a found path has the least number of edges of all dependency paths
\* from a to b.
C9_PathShortest ==
    (PathAsked /\ qret.args[1] # qret.args[2] /\ qret.value.found) =>
        Len(qret.value.path) - 1 = Distance(qret.args[1], qret.args[2])

\* a direct edge won over a longer path through a file listed before it
C9_Witness ==
    /\ PathAsked
    /\ qret.args = <<"a.py", "c.py">>
    /\ qret.value.path = <<"a.py", "c.py">>
    /\ result.files[1].dependencies = <<"F2", "F3">>
    /\ result.files[2].dependencies = <<"F3">>

(***************************************************************************)
(* Claims about QueryEngine.callers, checked under SpecCallers             *)
(***************************************************************************)
\* the ids of the symbols declared in the result under the name n
DeclaredIds(n) ==
    {id \in SymbolIds :
        \E i \in 1..FileCount : \E k \in 1..Len(result.files[i].symbols) :
            /\ result.files[i].symbols[k].name = n
            /\ result.files[i].symbols[k].id = id}

\* the Function Dependency edges, as (file index, position) pairs
CallEdges == {e \in (1..FileCount) \X (1..MaxCalls) :
                 e[2] <= Len(result.files[e[1]].function_dependencies)}

EntryOf(e) ==
    LET fd == result.files[e[1]].function_dependencies[e[2]] IN
    [file |-> result.files[e[1]].path, line |-> fd.line_number, context |-> fd.context]

\* C10: callers(name) holds one entry (file path, line, context) per Function
\* Dependency edge whose target is the id of a symbol declared under that
\* exact name, and none for any other edge.
C10_CallersExact ==
    qret.op = "callers" =>
        LET got == qret.value.callers
            want == {e \in CallEdges :
                        result.files[e[1]].function_dependencies[e[2]].to_symbol
                            \in DeclaredIds(qret.args[1])}
        IN  /\ Len(got) = Cardinality(want)
            /\ \A e \in want :
                   Cardinality({k \in 1..Len(got) : got[k] = EntryOf(e)})
                       = Cardinality({x \in want : EntryOf(x) = EntryOf(e)})

\* two files declare "Baz"; an edge to each is returned, and the name differing
\* in case only is declared too
C10_Witness ==
    /\ qret.op = "callers"
    /\ qret.args = <<"Baz">>
    /\ Len(qret.value.callers) = 2
    /\ Len(result.files[1].symbols) = 1
    /\ Len(result.files[2].symbols) = 1
    /\ result.files[1].symbols[1].name = "Baz"
    /\ result.files[2].symbols[1].name = "Baz"
    /\ result.files[1].symbols[1].id # result.files[2].symbols[1].id

(***************************************************************************)
(* Claims about dependents and deps, checked under SpecDeps                *)
(***************************************************************************)
\* the files named by a list of file-level entries
FilesOf(entries) == {entries[k].file : k \in 1..Len(entries)}

\* C11: for a known file f, dependents(f) names exactly the File Records whose
\* dependencies list holds f's identifier, each entry tagged "file-level";
\* and for all known f and g, g is in deps(f) iff f is in dependents(g).
C11_DependentsInverse ==
    /\ qret.op = "dependents" /\ KnownPath(qret.args[1]) =>
           LET got == qret.value.dependents IN
               /\ FilesOf(got) = {g \in KnownPaths : DependsOn(g, qret.args[1])}
               /\ \A k \in 1..Len(got) : got[k].dependency_type = "file-level"
    /\ engine = "ready" =>
           \A f, g \in KnownPaths :
               g \in FilesOf(DepsQuery(file_by_path, file_by_id, f).deps)
                   <=> f \in FilesOf(DependentsQuery(file_by_path, file_by_id,
                                                      reverse_deps, g).dependents)

\* two files depend on c.py, one of them also on a ghost; dependents(c.py)
\* names both
C11_Witness ==
    /\ qret.op = "dependents"
    /\ qret.args = <<"c.py">>
    /\ FilesOf(qret.value.dependents) = {"a.py", "b.py"}
    /\ \E k \in 1..Len(result.files[1].dependencies) :
           result.files[1].dependencies[k] = GhostId

(***************************************************************************)
(* Claims about search, checked under SpecSearch                           *)
(***************************************************************************)
SearchAsked == qret.op = "search"

\* file i of the result passes every filter that was supplied
PassesAll(i, np, gt, lang, hs) ==
    LET fi == result.files[i] IN
    /\ np.given => ReSearch(np.v, PathChars[fi.path])
    /\ lang.given => Lower(fi.language) = Lower(lang.v)
    /\ hs.given => \E k \in 1..Len(fi.symbols) : fi.symbols[k].name = hs.v
    /\ gt.given => (fi.complexity_score = 0 \/ fi.complexity_score > gt.v)

\* the members of the set S of file indices, in ascending order
RECURSIVE Ascending(_)
Ascending(S) ==
    IF S = {} THEN <<>>
    ELSE LET least == CHOOSE i \in S : \A j \in S : i <= j
         IN  <<least>> \o Ascending(S \ {least})

\* C12: a search() that returns holds, in the stored file order, exactly the
\* files that pass every supplied filter, the complexity filter passing a
\* file iff its score is 0 or strictly greater than complexity_gt.
C12_SearchFilters ==
    (SearchAsked /\ qret.value.raised = None) =>
        LET np == qret.args[1]
            gt == qret.args[2]
            lang == qret.args[3]
            hs == qret.args[4]
            got == qret.value.returned.results
            want == Ascending({i \in 1..FileCount : PassesAll(i, np, gt, lang, hs)})
        IN  /\ Len(got) = Len(want)
            /\ \A k \in 1..Len(want) : got[k].file = result.files[want[k]].path
            /\ \A i \in 1..FileCount :
                   (gt.given /\ ~np.given /\ ~lang.given /\ ~hs.given) =>
                       /\ result.files[i].complexity_score = 0
                              => \E k \in 1..Len(got) : got[k].file = result.files[i].path
                       /\ result.files[i].complexity_score = gt.v
                              => (gt.v = 0 \/ \A k \in 1..Len(got) :
                                                  got[k].file # result.files[i].path)

\* a threshold of 1 and no other filter: the file scored 0 is returned, the
\* file scored at the threshold is not
C12_Witness ==
    /\ SearchAsked
    /\ qret.args[2] = Given(1)
    /\ ~qret.args[1].given
    /\ ~qret.args[3].given
    /\ ~qret.args[4].given
    /\ result.files[1].complexity_score = 0
    /\ result.files[2].complexity_score = 1
    /\ qret.value.raised = None
    /\ Len(qret.value.returned.results) = 1
    /\ qret.value.returned.results[1].file = "a.py"

\* C13: the non-fatal queries never raise; here search(), with any filter
\* values, returns a (possibly empty) result list that echoes its query.
C13_SearchNeverRaises ==
    SearchAsked =>
        /\ qret.value.raised = None
        /\ qret.value.returned.query =
               QueryEcho(qret.args[1], qret.args[2], qret.args[3], qret.args[4])

(***************************************************************************)
(* Claims about context and symbols, checked under SpecContext             *)
(***************************************************************************)
\* C14: context(p) and symbols(p) raise a file-not-found error when p is not
\* the path of a File Record of the result, and return that file's structure
\* when it is.
C14_ContextSymbolsRaise ==
    qret.op \in {"context", "symbols"} =>
        LET p == qret.args[1] IN
        /\ ~KnownPath(p) => qret.value.raised = "FileNotFoundError"
        /\ KnownPath(p) =>
               /\ qret.value.raised = None
               /\ qret.value.returned.file = p
               /\ Len(qret.value.returned.symbols) =
                      Len(result.files[CHOOSE i \in 1..FileCount :
                                           result.files[i].path = p].symbols)

\* context() raised for an unknown path, on a result whose first file declares
\* symbols and has a dependency
C14_Witness ==
    /\ qret.op = "context"
    /\ qret.args = <<UnknownPath>>
    /\ qret.value.raised = "FileNotFoundError"
    /\ Len(result.files[1].symbols) = 2
    /\ result.files[1].dependencies # <<>>

(***************************************************************************)
(* Claims about the Language Extractors, checked under SpecExtract         *)
(***************************************************************************)
Extracted(run) == run.op = "extract_code_structure"

\* the run went through every step
Succeeded(run) ==
    /\ Extracted(run)
    /\ IF xfile.extractor = "javascript"
       THEN JsFailure(xfile, FilePath(run.root, xfile.rel), run.repo_path) = "none"
       ELSE xfile.fail = "none"

SymbolIdsOf(run) == [k \in 1..Len(run.out.symbols) |-> run.out.symbols[k].id]

\* C15: two extraction runs over the same file at the same relative path give
\* every symbol the same identifier, wherever the repository root lies.
C15_SymbolIdsDeterministic ==
    (Succeeded(xrun) /\ Succeeded(xprev)) => SymbolIdsOf(xrun) = SymbolIdsOf(xprev)

\* C16: the symbols of one file that differ in kind, name or position (line
\* or column) are given different identifiers.
C16_SymbolIdsUnique ==
    Succeeded(xrun) =>
        /\ Len(xrun.out.symbols) = Len(xfile.decls)
        /\ Cardinality({xrun.out.symbols[k].id : k \in 1..Len(xrun.out.symbols)})
               = Len(xfile.decls)

\* C18: extract_code_structure never raises, and a run that fails at any step
\* returns empty symbols, exports, function dependencies, imports and metadata.
C18_FailureGivesEmpty ==
    Extracted(xrun) =>
        /\ xrun.out.raised = None
        /\ ~Succeeded(xrun) =>
               /\ xrun.out.symbols = <<>>
               /\ xrun.out.exports = <<>>
               /\ xrun.out.function_deps = <<>>
               /\ xrun.out.imports = <<>>
               /\ DOMAIN xrun.out.metadata = {}

(***************************************************************************)
(* Claims about extract_dependencies, checked under SpecImports            *)
(***************************************************************************)
\* C17: the list extract_dependencies returns is in ascending order and holds
\* no path twice, for the JavaScript, TypeScript and Go extractors.
C17_DependenciesSorted ==
    xrun.op = "extract_dependencies" =>
        \A i \in 1..(Len(xrun.out) - 1) : PathRank(xrun.out[i]) < PathRank(xrun.out[i + 1])

(***************************************************************************)
(* Further claims about QueryEngine.path, checked under SpecPath           *)
(***************************************************************************)
\* C23: path(a, a) returns found = true and the path [a] for every string a,
\* the path of a File Record or not, whatever the dependencies are.
C23_PathToSelf ==
    (PathAsked /\ qret.args[1] = qret.args[2]) =>
        qret.value = PathValue(qret.args[1], qret.args[1], <<qret.args[1]>>, TRUE)

\* path(a, a) was asked for a string that is no File Record's path, over a
\* graph with edges in which no file depends on itself
C23_Witness ==
    /\ PathAsked
    /\ qret.args = <<UnknownPath, UnknownPath>>
    /\ qret.value.found
    /\ EdgeCount(FileCount) > 0
    /\ \A i \in 1..FileCount : ~DependsOn(result.files[i].path, result.files[i].path)

(***************************************************************************)
(* Claims about the queries as reads, checked under SpecQueries            *)
(***************************************************************************)
Indices == <<file_by_id, file_by_path, symbol_by_name, reverse_deps>>

\* no step of a built engine changes the Analysis Result or an index
QueriesOnlyRead == engine = "ready" => (result' = result /\ Indices' = Indices)

\* a query asked again with the arguments of the kept one returns the same
SameAnswerAgain ==
    (engine = "ready" /\ kept.op # "none"
       /\ qret.op = kept.op /\ qret.args = kept.args) => qret.value = kept.value

\* C24: callers, dependents, deps, context, search, path and symbols change
\* neither the four indices nor the Analysis Result, for known and unknown
\* arguments; a query repeated with the same arguments after any other
\* queries returns an equal result, its elements in the same order.
C24_QueriesArePureReads == []SameAnswerAgain /\ [][QueriesOnlyRead]_vars

\* dependents("b.py") was kept, and asked again later it lists the same two
\* entries
C24_Witness ==
    /\ kept.op = "dependents"
    /\ qret.op = "dependents"
    /\ qret.args = kept.args
    /\ Len(qret.value.dependents) = 2

(***************************************************************************)
(* Claims about the query CLI, checked under SpecCli                       *)
(***************************************************************************)
\* the errors a query command can end with, other than file-not-found
OtherFailures == {"load_or_analyze", "re.error", "At least one search option must be provided"}

\* C25: a file-not-found raised by `query context` or `query symbols` ends
\* the process with a non-zero exit code that no other query failure uses,
\* and a query that succeeds, with an empty result too, exits zero.
C25_DistinctExitCodes ==
    /\ (cli.command \in {"context", "symbols"} /\ cli.error = "FileNotFoundError") =>
           /\ cli.exit_code # 0
           /\ \A e \in OtherFailures : cli.exit_code # ExitOnError(e)
    /\ (cli.command # "none" /\ cli.error = None) => cli.exit_code = 0

(***************************************************************************)
(* Claims about the parser registry, checked under SpecRegistry            *)
(***************************************************************************)
\* what the last get_parser did: it raised nothing; it returned None only
\* when the construction for its own language failed or the language has no
\* factory; otherwise it returned the extractor the registry holds
SelectionAnswer ==
    registry.language # None =>
        /\ ~registry.raised
        /\ registry.constructed = "failed" => registry.returned = NoParser
        /\ registry.returned = NoParser => registry.constructed \in {"failed", "no factory"}
        /\ registry.returned # NoParser =>
               /\ Has(registry.parsers, registry.language)
               /\ registry.returned = registry.parsers[registry.language]

\* a call leaves the extractors already built as they are, whatever happens
\* to the construction it attempts
BuiltOnce ==
    \A l \in DOMAIN registry.parsers :
        l \in DOMAIN registry'.parsers /\ registry'.parsers[l] = registry.parsers[l]

\* C26: a failed construction makes get_parser return None for that language
\* without raising; get_parser for the other languages still returns their
\* extractors; an extractor once built is the one every later get_parser for
\* its language returns.
C26_RegistrySelection == []SelectionAnswer /\ [][BuiltOnce]_vars

\* after the TypeScript construction failed, the Go extractor built earlier
\* is returned again and the Python one was built in between
C26_Witness ==
    /\ registry.language = "go"
    /\ registry.constructed = "cached"
    /\ registry.returned = Instance("go", 1)
    /\ Has(registry.parsers, "python")
    /\ ~Has(registry.parsers, "typescript")

(***************************************************************************)
(* Claims about the runtime detector, checked under SpecRuntime            *)
(***************************************************************************)
\* the priority order of the documentation, highest first
DocumentedOrder == <<"pnpm-lock.yaml", "package-lock.json", "yarn.lock", "poetry.lock",
                     "Pipfile.lock", "requirements.txt", "pyproject.toml", "environment.yml">>

\* the managers the documentation gives each marker
ManagersOf(marker) ==
    IF marker = "pnpm-lock.yaml" THEN {"pnpm"}
    ELSE IF marker = "package-lock.json" THEN {"npm"}
    ELSE IF marker = "yarn.lock" THEN {"yarn"}
    ELSE IF marker = "poetry.lock" THEN {"poetry"}
    ELSE IF marker = "Pipfile.lock" THEN {"pipenv"}
    ELSE IF marker = "requirements.txt" THEN {"pip"}
    ELSE IF marker = "pyproject.toml" THEN {"poetry", "pip"}
    ELSE {"conda"}

\* C27: detect_package_manager returns the manager of the first marker of the
\* documented order (pnpm-lock.yaml, package-lock.json, yarn.lock,
\* poetry.lock, Pipfile.lock, requirements.txt, pyproject.toml,
\* environment.yml) that is in the repository root, and UNKNOWN if none is.
C27_DocumentedPriority ==
    snap.op = "detect_package_manager" =>
        IF snap.present = {} THEN snap.package_manager = "unknown"
        ELSE LET first == CHOOSE i \in 1..Len(DocumentedOrder) :
                              /\ DocumentedOrder[i] \in snap.present
                              /\ \A j \in 1..(i - 1) : DocumentedOrder[j] \notin snap.present
             IN  snap.package_manager \in ManagersOf(DocumentedOrder[first])

(***************************************************************************)
(* Claims about the snapshot's file UUIDs, checked under SpecSnapshot      *)
(***************************************************************************)
TwoBuilds == snap.last.op = "build" /\ snap.before.op = "build"

\* the repository-relative POSIX path of file i of a run
RelativePosix(run, i) == AsPosix(FileInfoPath(run.root, run.files, i))

\* C28: the snapshot's file UUID depends only on the repository-relative
\* POSIX path: two builds give one relative path the same UUID wherever the
\* repositories lie ("/repo", "C:/repo"), and two builds of one repository
\* give the same UUIDs and the same file_index.
C28_UuidFromRelativePath ==
    TwoBuilds =>
        /\ \A i \in 1..Len(snap.last.files), j \in 1..Len(snap.before.files) :
               RelativePosix(snap.last, i) = RelativePosix(snap.before, j) =>
                   snap.last.uuids[i] = snap.before.uuids[j]
        /\ (snap.last.root = snap.before.root /\ snap.last.files = snap.before.files) =>
               /\ snap.last.uuids = snap.before.uuids
               /\ snap.last.file_index = snap.before.file_index

(***************************************************************************)
(* TypeScriptParser's lazy initialization                                  *)
(* SpecTsInit: one TypeScriptParser, its two extract methods called on     *)
(* TypeScript files, tree-sitter's initialization succeeding or failing    *)
(***************************************************************************)
\* what `from tree_sitter_language_pack import ...`, get_language and
\* get_parser do at an attempt: all succeed, or one of them raises
InitOutcomes == {"ok", "import", "get_language", "get_parser"}

\* the calls made on one parser at most
MaxTsCalls == 3

\* TypeScriptParser.__init__
NewTypeScriptParser == [_language |-> None, _parser |-> None, _init_error |-> None]

\* _ensure_initialized without the test of _init_error
EnsureInitializedRetrying(self, outcome) ==
    IF self._parser # None
    THEN [self |-> self, ok |-> TRUE, attempted |-> FALSE]
    ELSE IF outcome = "ok"
    THEN [self |-> [self EXCEPT !._language = "Language", !._parser = "Parser"],
          ok |-> TRUE, attempted |-> TRUE]
    ELSE [self |-> [self EXCEPT !._language = IF outcome = "get_parser"
                                              THEN "Language" ELSE @,
                                !._init_error = outcome],
          ok |-> FALSE, attempted |-> TRUE]

\* TypeScriptParser._ensure_initialized: the parser after it, what it
\* returned, and whether it ran the try block
EnsureInitialized(self, outcome) ==
    IF self._parser # None
    THEN [self |-> self, ok |-> TRUE, attempted |-> FALSE]
    ELSE IF self._init_error # None
    THEN [self |-> self, ok |-> FALSE, attempted |-> FALSE]
    ELSE IF outcome = "ok"
    THEN [self |-> [self EXCEPT !._language = "Language", !._parser = "Parser"],
          ok |-> TRUE, attempted |-> TRUE]
    ELSE [self |-> [self EXCEPT !._language = IF outcome = "get_parser"
                                              THEN "Language" ELSE @,
                                !._init_error = outcome],
          ok |-> FALSE, attempted |-> TRUE]

\* the TypeScript files the methods are called on
TsFiles ==
    [extractor : {"typescript"}, rel : {SourceRel},
     decls : {<<>>, <<[kind |-> "function", name |-> "f", line |-> 1, col |-> 0]>>},
     imports : ImportLists, fail : {"none", "read"}]

\* a call of an extract method: _ensure_initialized first, the early return
\* when it says False, the extraction otherwise
TsCall(op, file, args, outcome) ==
    LET e == EnsureInitialized(tsParser.self, outcome)
        f == IF e.ok THEN file ELSE [file EXCEPT !.fail = "init"]
        fp == FilePath(args[1], file.rel)
    IN  /\ tsParser.calls < MaxTsCalls
        /\ tsParser' =
               [self |-> e.self,
                attempts |-> tsParser.attempts + (IF e.attempted THEN 1 ELSE 0),
                calls |-> tsParser.calls + 1,
                call |-> [op |-> op, before |-> tsParser.self, file |-> file,
                          out |-> IF op = "extract_dependencies"
                                  THEN TsDependencies(f, fp, args[2])
                                  ELSE TsStructure(f, fp, args[2])]]
        /\ UNCHANGED <<cacheVars, saveVars, queryVars, parserVars, raceVars>>
        /\ UNCHANGED <<bfs, cli, registry, kept, snap>>

\* TypeScriptParser.extract_dependencies
extract_dependencies ==
    \E file \in TsFiles, args \in RunArgs, outcome \in InitOutcomes :
        TsCall("extract_dependencies", file, args, outcome)

\* TypeScriptParser.extract_code_structure
extract_code_structure ==
    \E file \in TsFiles, args \in RunArgs, outcome \in InitOutcomes :
        TsCall("extract_code_structure", file, args, outcome)

InitTsInit ==
    /\ tsParser = [self |-> NewTypeScriptParser, attempts |-> 0, calls |-> 0,
                   call |-> [op |-> "none"]]
    /\ bfs = [pc |-> "off"]
    /\ cli = [command |-> "none"]
    /\ registry = [parsers |-> <<>>]
    /\ kept = [op |-> "none"]
    /\ snap = [op |-> "none"]
    /\ xfile = Nil
    /\ xrun = [op |-> "none"]
    /\ xprev = [op |-> "none"]
    /\ QueryIdle
    /\ CacheIdle
    /\ RaceIdle

NextTsInit ==
    \/ extract_dependencies
    \/ extract_code_structure

SpecTsInit == InitTsInit /\ [][NextTsInit]_vars

(***************************************************************************)
(* Claims about TypeScriptParser's initialization, checked under           *)
(* SpecTsInit                                                              *)
(***************************************************************************)
Uninitialized(self) == self._parser = None /\ self._init_error = None
Ready(self) == self._parser # None
Failed(self) == self._init_error # None

\* what a call in the failed state returns
EmptyResults(call) ==
    IF call.op = "extract_dependencies" THEN call.out = <<>>
    ELSE call.out = EmptyStructure

\* in every state: one attempt at most, none before the first call, a
\* parser that was called is ready or failed and never both, and a call made
\* in the failed state returned empty results
OneShotState ==
    /\ tsParser.attempts <= 1
    /\ ~(Ready(tsParser.self) /\ Failed(tsParser.self))
    /\ Uninitialized(tsParser.self) <=> tsParser.call.op = "none"
    /\ tsParser.attempts = 0 <=> tsParser.call.op = "none"
    /\ (tsParser.call.op # "none" /\ Failed(tsParser.call.before)) =>
           EmptyResults(tsParser.call)
    /\ (tsParser.call.op # "none" /\ Failed(tsParser.self)) =>
           EmptyResults(tsParser.call)

\* in every step: ready and failed are left by no call, which attempts nothing
Absorbing ==
    ~Uninitialized(tsParser.self) =>
        /\ tsParser'.self = tsParser.self
        /\ tsParser'.attempts = tsParser.attempts

\* C29: the lazy initialization of a TypeScriptParser is a one-shot state
\* machine: the first extract call attempts the initialization once and
\* leaves the parser ready (_parser set) or failed (_init_error set); no later
\* call attempts it again or changes the state; a call in the failed state
\* returns empty results ([] or [], [], [], [], {}) without raising; and
\* _parser and _init_error are never both set.
C29_OneShotInitialization == []OneShotState /\ [][Absorbing]_vars

\* the initialization failed at the first call, and a later
\* extract_code_structure of a file with declarations returned all-empty
C29_Witness ==
    /\ tsParser.calls = 2
    /\ tsParser.attempts = 1
    /\ tsParser.call.op = "extract_code_structure"
    /\ Failed(tsParser.call.before)
    /\ tsParser.call.file.fail = "none"
    /\ tsParser.call.file.decls # <<>>
    /\ tsParser.call.out = EmptyStructure

(***************************************************************************)
(* QueryEngine.path, one loop iteration at a time                          *)
(* SpecBfs: a path() call run step by step over a dependency graph with    *)
(* cycles, self-dependencies, duplicate entries and ghost identifiers      *)
(***************************************************************************)
\* the identifiers a dependencies list can hold: the three File Records' and
\* one that no File Record has
BfsIds == {FileIdOf["a.py"], FileIdOf["b.py"], FileIdOf["c.py"], GhostId}

\* the dependencies lists of three File Records, MaxEdges entries in all
BfsGraphs ==
    UNION {[1..n[1] -> BfsIds] \X [1..n[2] -> BfsIds] \X [1..n[3] -> BfsIds] :
              n \in {t \in (0..MaxEdges) \X (0..MaxEdges) \X (0..MaxEdges) :
                        t[1] + t[2] + t[3] <= MaxEdges}}

\* a test that takes every dep_id for a new one
NotInPredecessorsAlways(dep_id, predecessors) == TRUE

\* dep_id not in predecessors
NotInPredecessors(dep_id, predecessors) == dep_id \notin DOMAIN predecessors

\* how often each identifier was appended to the queue and taken from it
NoCounts == [id \in BfsIds |-> 0]
Counted(counts, id) == [counts EXCEPT ![id] = @ + 1]

BfsDone(a, b, path, found) ==
    [pc |-> "done", file_a |-> a, file_b |-> b, value |-> PathValue(a, b, path, found),
     enqueued |-> IF bfs.pc \in {"off", "done"} THEN NoCounts ELSE bfs.enqueued,
     dequeued |-> IF bfs.pc \in {"off", "done"} THEN NoCounts ELSE bfs.dequeued]

BfsFrame ==
    /\ UNCHANGED <<cacheVars, saveVars, queryVars, parserVars, raceVars>>
    /\ UNCHANGED <<cli, registry, tsParser, kept, snap>>

\* path(file_a, file_b) up to the loop: the test for equal endpoints, the two
\* lookups, predecessors = {fi_a.id: None}, queue = deque([fi_a.id])
BfsEnter ==
    /\ engine = "ready"
    /\ bfs.pc \in {"off", "done"}
    /\ \E a \in QueryPaths, b \in QueryPaths :
           bfs' = IF a = b THEN BfsDone(a, b, <<a>>, TRUE)
                  ELSE IF ~Has(file_by_path, a) \/ ~Has(file_by_path, b)
                  THEN BfsDone(a, b, <<>>, FALSE)
                  ELSE [pc |-> "while", file_a |-> a, file_b |-> b,
                        fi_a |-> file_by_path[a].id, fi_b |-> file_by_path[b].id,
                        predecessors |-> Put(EmptyDict, file_by_path[a].id, None),
                        queue |-> <<file_by_path[a].id>>, found |-> FALSE,
                        enqueued |-> Counted(NoCounts, file_by_path[a].id),
                        dequeued |-> NoCounts]
    /\ BfsFrame

\* while queue and not found: current_id = queue.popleft(); after the loop,
\* `if found` starts the walk back and the path is not found otherwise
BfsWhile ==
    /\ bfs.pc = "while"
    /\ bfs' = IF bfs.queue # <<>> /\ ~bfs.found
              THEN [pc |-> "for", file_a |-> bfs.file_a, file_b |-> bfs.file_b,
                    fi_a |-> bfs.fi_a, fi_b |-> bfs.fi_b,
                    predecessors |-> bfs.predecessors, queue |-> Tail(bfs.queue),
                    found |-> bfs.found, current_id |-> Head(bfs.queue), i |-> 1,
                    enqueued |-> bfs.enqueued,
                    dequeued |-> Counted(bfs.dequeued, Head(bfs.queue))]
              ELSE IF bfs.found
              THEN [pc |-> "walk", file_a |-> bfs.file_a, file_b |-> bfs.file_b,
                    fi_a |-> bfs.fi_a, fi_b |-> bfs.fi_b,
                    predecessors |-> bfs.predecessors, path_ids |-> <<>>,
                    node |-> bfs.fi_b,
                    enqueued |-> bfs.enqueued, dequeued |-> bfs.dequeued]
              ELSE BfsDone(bfs.file_a, bfs.file_b, <<>>, FALSE)
    /\ BfsFrame

\* one pass of `for dep_id in current_fi.dependencies`, or its end
BfsFor ==
    /\ bfs.pc = "for"
    /\ LET deps == file_by_id[bfs.current_id].dependencies
           back == [pc |-> "while", file_a |-> bfs.file_a, file_b |-> bfs.file_b,
                    fi_a |-> bfs.fi_a, fi_b |-> bfs.fi_b,
                    predecessors |-> bfs.predecessors, queue |-> bfs.queue,
                    found |-> bfs.found,
                    enqueued |-> bfs.enqueued, dequeued |-> bfs.dequeued]
       IN  IF bfs.i > Len(deps) THEN bfs' = back
           ELSE LET dep_id == deps[bfs.i] IN
                IF ~Has(file_by_id, dep_id) THEN bfs' = [bfs EXCEPT !.i = @ + 1]
                ELSE IF NotInPredecessors(dep_id, bfs.predecessors)
                THEN IF dep_id = bfs.fi_b
                     THEN bfs' = [back EXCEPT
                                      !.predecessors = Put(@, dep_id, bfs.current_id),
                                      !.found = TRUE]
                     ELSE bfs' = [bfs EXCEPT
                                      !.predecessors = Put(@, dep_id, bfs.current_id),
                                      !.queue = Append(@, dep_id),
                                      !.enqueued = Counted(@, dep_id),
                                      !.i = @ + 1]
                ELSE bfs' = [bfs EXCEPT !.i = @ + 1]
    /\ BfsFrame

\* one pass of `while node is not None`, or its end: path_ids.reverse() and
\* the paths of the File Records
BfsWalk ==
    /\ bfs.pc = "walk"
    /\ bfs' = IF bfs.node # None
              THEN [bfs EXCEPT !.path_ids = Append(@, bfs.node),
                               !.node = bfs.predecessors[bfs.node]]
              ELSE LET ids == Reverse(bfs.path_ids)
                   IN  BfsDone(bfs.file_a, bfs.file_b,
                               [n \in 1..Len(ids) |-> file_by_id[ids[n]].path], TRUE)
    /\ BfsFrame

InitBfs ==
    /\ \E g \in BfsGraphs :
           result = [root |-> RepoRoot,
                     files |-> <<[NewFile("a.py") EXCEPT !.dependencies = g[1]],
                                 [NewFile("b.py") EXCEPT !.dependencies = g[2]],
                                 [NewFile("c.py") EXCEPT !.dependencies = g[3]]>>]
    /\ EngineBuilding
    /\ CacheIdle
    /\ ParserIdle
    /\ RaceIdle
    /\ AuxIdle

NextBfs ==
    \/ Construct
    \/ BfsEnter
    \/ BfsWhile
    \/ BfsFor
    \/ BfsWalk

SpecBfs == InitBfs /\ [][NextBfs]_vars

\* a call that was entered goes on running
SpecBfsFair ==
    /\ SpecBfs
    /\ WF_vars(BfsWhile)
    /\ WF_vars(BfsFor)
    /\ WF_vars(BfsWalk)

(***************************************************************************)
(* Claims about the termination of path(), checked under SpecBfsFair       *)
(***************************************************************************)
BfsRunning == bfs.pc \in {"while", "for", "walk"}

NoRepeats(seq) == \A i, j \in 1..Len(seq) : i # j => seq[i] # seq[j]

\* in every state of a call: no identifier was appended to the queue twice or
\* taken from it twice, no more removals than File Records, only identifiers
\* of File Records in the queue, and the walk back visits no node twice and
\* ends at file_a
BfsBounded ==
    /\ bfs.pc \notin {"off"} =>
           /\ \A id \in BfsIds : bfs.enqueued[id] <= 1 /\ bfs.dequeued[id] <= bfs.enqueued[id]
           /\ bfs.enqueued[GhostId] = 0
           /\ Cardinality({id \in BfsIds : bfs.dequeued[id] = 1}) <= FileCount
    /\ bfs.pc \in {"while", "for"} =>
           /\ NoRepeats(bfs.queue)
           /\ \A k \in 1..Len(bfs.queue) : Has(file_by_id, bfs.queue[k])
    /\ bfs.pc = "walk" =>
           /\ NoRepeats(bfs.path_ids)
           /\ bfs.node \notin {bfs.path_ids[k] : k \in 1..Len(bfs.path_ids)}
           /\ Len(bfs.path_ids) <= FileCount
           /\ bfs.node = None => bfs.path_ids[Len(bfs.path_ids)] = bfs.fi_a
    /\ (bfs.pc = "done" /\ bfs.value.found) =>
           /\ NoRepeats(bfs.value.path)
           /\ bfs.value.path[1] = bfs.file_a
           /\ bfs.value.path[Len(bfs.value.path)] = bfs.file_b

\* C30: the BFS of path(a, b) terminates on every finite Analysis Result,
\* whatever cycles, self-dependencies, duplicate entries and identifiers
\* without a File Record its dependencies lists hold: every identifier is put
\* in the queue at most once, so at most one removal per File Record happens,
\* and the walk along the predecessors ends at a without visiting a node
\* twice, so the returned path repeats no file.
C30_BfsTerminates == []BfsBounded /\ (BfsRunning ~> bfs.pc = "done")

\* a path a.py -> b.py -> c.py was returned from a graph in which b.py also
\* depends on itself, on a.py (a cycle) or on a ghost
C30_Witness ==
    /\ bfs.pc = "done"
    /\ bfs.value.path = <<"a.py", "b.py", "c.py">>
    /\ result.files[1].dependencies = <<FileIdOf["b.py"]>>
    /\ result.files[2].dependencies = <<FileIdOf["a.py"], FileIdOf["c.py"]>>
    /\ bfs.dequeued[FileIdOf["b.py"]] = 1

====
